---- MODULE Spec2Model ----
(***************************************************************************)
(* A model of the blau tile-drafting engine: GameState (game_state.rs),    *)
(* PlayerState (player_state.rs), Move (player_move.rs) and Color          *)
(* (colors.rs).                                                            *)
(*                                                                         *)
(* Vec<Color> piles whose order the code never observes (the tile bag is   *)
(* shuffled before it is popped, the box lid is only appended to the bag,  *)
(* a factory is only counted, scanned and emptied) are multisets: a        *)
(* function from each tile a Vec<Color> is ever pushed (a movable color    *)
(* or the start token) to its count.  Popping the shuffled bag is the      *)
(* choice of any tile left in it.  The trash and the score ledger keep     *)
(* their order.                                                            *)
(***************************************************************************)
EXTENDS Integers, Sequences, FiniteSets, TLC

VARIABLES tile_bag, box_lid, factories, center, players,
          start_player_idx, curr_player_idx, round_number,
          op, ret, phase, in_order, board, twin, api

gameVars == <<tile_bag, box_lid, factories, center, players,
              start_player_idx, curr_player_idx, round_number>>
vars == <<tile_bag, box_lid, factories, center, players,
          start_player_idx, curr_player_idx, round_number,
          op, ret, phase, in_order, board, twin, api>>

(* ---------------------------------------------------------------- bounds *)
\* Movable colors = grid side = number of working rows (5 in the source).
NumColors == 2
\* Copies of each color in the tile bag (20 in the source).
TilesPerColor == 2
\* Tiles dealt to one factory (4 in the source).
FactorySize == 2
\* player_names.len()
NumPlayers == 2
\* Rounds scored before the model stops.
MaxRounds == 2
\* Most tiles one add_tiles call is handed.
MaxAdd == 3
\* Longest trash a board is driven to on its own.
MaxTrash == 3
\* Fewest and most copies of a color in the tile bag of a game picked up at the
\* end of a round: bags from one tile-pair short of a full deal to one over.
BagMin == 4
BagMax == 6

(* ---------------------------------------------------------------- colors *)
Colors == 0 .. (NumColors - 1)
Start == NumColors
Blank == NumColors + 1
ColorValues == 0 .. Blank
Rows == 0 .. (NumColors - 1)
TrashRow == NumColors
\* What a pile can hold: the movable colors and the start token.
Tiles == Colors \cup {Start}

is_movable(c) == c # Start /\ c # Blank

Min(a, b) == IF a < b THEN a ELSE b

(* -------------------------------------------------------------- multisets *)
EmptyPile == [c \in Tiles |-> 0]

RECURSIVE SumUpTo(_, _)
SumUpTo(f, k) == IF k < 0 THEN 0 ELSE f[k] + SumUpTo(f, k - 1)

\* Vec::len
PileSize(b) == SumUpTo(b, Start)

\* The movable tiles of a pile.
MovableSize(b) == SumUpTo(b, NumColors - 1)

PilePlus(a, b) == [c \in Tiles |-> a[c] + b[c]]
PileMinus(a, b) == [c \in Tiles |-> a[c] - b[c]]

\* The tiles n successive pops of a shuffled pile can give.
Pops(b, n) ==
    {d \in [Tiles -> 0 .. n] :
        (\A c \in Tiles : d[c] <= b[c]) /\ PileSize(d) = n}

RECURSIVE SumSeq(_)
SumSeq(s) == IF s = <<>> THEN 0 ELSE Head(s) + SumSeq(Tail(s))

\* n copies of x
Repeat(x, n) == [i \in 1 .. n |-> x]

\* The tiles of a sequence of colors, as a pile.
PileOf(s) == [c \in Tiles |-> Cardinality({i \in 1 .. Len(s) : s[i] = c})]

(* ----------------------------------------------------------- PlayerState *)
PENALTIES == <<-1, -1, -2, -2, -2, -3, -3>>
ROW_BONUS == 2
COL_BONUS == 7
KIND_BONUS == 10

played_column(row, color) == (color + row) % NumColors

played_color(row, column) == (column + NumColors - row) % NumColors

\* score_tile without the discount for a run of one.
score_tile_no_discount(grid, row, col) ==
    LET right == Cardinality({j \in (col + 1) .. (NumColors - 1) :
                                \A i \in (col + 1) .. j : grid[row][i]})
        left  == Cardinality({j \in 0 .. (col - 1) :
                                \A i \in j .. (col - 1) : grid[row][i]})
        below == Cardinality({j \in (row + 1) .. (NumColors - 1) :
                                \A i \in (row + 1) .. j : grid[i][col]})
        above == Cardinality({j \in 0 .. (row - 1) :
                                \A i \in j .. (row - 1) : grid[i][col]})
        horiz == 1 + right + left
        vert  == 1 + below + above
    IN  horiz + vert

score_tile(grid, row, col) ==
    LET right == Cardinality({j \in (col + 1) .. (NumColors - 1) :
                                \A i \in (col + 1) .. j : grid[row][i]})
        left  == Cardinality({j \in 0 .. (col - 1) :
                                \A i \in j .. (col - 1) : grid[row][i]})
        below == Cardinality({j \in (row + 1) .. (NumColors - 1) :
                                \A i \in (row + 1) .. j : grid[i][col]})
        above == Cardinality({j \in 0 .. (row - 1) :
                                \A i \in j .. (row - 1) : grid[i][col]})
        horiz == 1 + right + left
        vert  == 1 + below + above
        res   == horiz + vert
    IN  IF horiz = 1 \/ vert = 1 THEN res - 1 ELSE res

NewPlayer ==
    [played_tiles  |-> [r \in Rows |-> [c \in Rows |-> FALSE]],
     working_count |-> [r \in Rows |-> 0],
     working_color |-> [r \in Rows |-> Blank],
     trashed_tiles |-> <<>>,
     scores        |-> <<>>]

score(p) == SumSeq(p.scores)

is_new_working_row(p, row) == row < NumColors /\ p.working_count[row] = 0

send_to_trash(p, c, num_tiles) ==
    [p EXCEPT !.trashed_tiles = @ \o Repeat(c, num_tiles)]

is_played(p, row, c) == p.played_tiles[row][played_column(row, c)]

\* A row that takes any color, whatever it is locked to.
locked_to_none(w_color, color) == FALSE

\* add_tiles's lock test: the row holds a color other than the one added.
locked_to_other(w_color, color) == w_color # color /\ w_color # Blank

\* The overflow counted without the tiles the row already holds.
overflow_of_new_tiles(num_tiles, w_count, row_number) == num_tiles - row_number

\* add_tiles's num_trashed, computed when num_tiles + w_count > row_number.
overflow(num_tiles, w_count, row_number) == num_tiles + w_count - row_number

\* add_tiles locking the row to the color before it checks for room.
add_tiles_lock_first(p, row, color, num_tiles) ==
    IF row = TrashRow THEN
        [ok |-> TRUE, pl |-> send_to_trash(p, color, num_tiles)]
    ELSE IF row > TrashRow THEN [ok |-> FALSE, pl |-> p]
    ELSE IF color = Start THEN [ok |-> FALSE, pl |-> p]
    ELSE IF is_played(p, row, color) THEN [ok |-> FALSE, pl |-> p]
    ELSE LET row_number == 1 + row
             w_count == p.working_count[row]
             w_color == p.working_color[row]
             locked == [p EXCEPT !.working_color[row] = color]
         IN  IF w_count >= row_number THEN [ok |-> FALSE, pl |-> locked]
             ELSE IF locked_to_other(w_color, color) THEN
                 [ok |-> FALSE, pl |-> p]
             ELSE IF num_tiles + w_count > row_number THEN
                      LET num_trashed == overflow(num_tiles, w_count, row_number)
                          trashed == send_to_trash(locked, color, num_trashed)
                      IN  [ok |-> TRUE,
                           pl |-> [trashed EXCEPT !.working_count[row] =
                                       @ + (num_tiles - num_trashed)]]
                  ELSE [ok |-> TRUE,
                        pl |-> [locked EXCEPT !.working_count[row] =
                                    @ + num_tiles]]

\* The board after the call and whether it returned Ok.
add_tiles(p, row, color, num_tiles) ==
    IF row = TrashRow THEN
        [ok |-> TRUE, pl |-> send_to_trash(p, color, num_tiles)]
    ELSE IF row > TrashRow THEN [ok |-> FALSE, pl |-> p]
    ELSE IF color = Start THEN [ok |-> FALSE, pl |-> p]
    ELSE IF is_played(p, row, color) THEN [ok |-> FALSE, pl |-> p]
    ELSE LET row_number == 1 + row
             w_count == p.working_count[row]
             w_color == p.working_color[row]
         IN  IF w_count >= row_number THEN [ok |-> FALSE, pl |-> p]
             ELSE IF locked_to_other(w_color, color) THEN
                 [ok |-> FALSE, pl |-> p]
             ELSE LET locked == [p EXCEPT !.working_color[row] = color]
                  IN  IF num_tiles + w_count > row_number THEN
                          LET num_trashed == overflow(num_tiles, w_count, row_number)
                              trashed == send_to_trash(locked, color, num_trashed)
                          IN  [ok |-> TRUE,
                               pl |-> [trashed EXCEPT !.working_count[row] =
                                           @ + (num_tiles - num_trashed)]]
                      ELSE [ok |-> TRUE,
                            pl |-> [locked EXCEPT !.working_count[row] =
                                        @ + num_tiles]]

\* Any staged tile makes the row one to flush.
row_complete_any(count, row) == count > 0

\* score_round skips a row when `count <= row`.
row_complete(count, row) == ~(count <= row)

\* The placed tile written as the only tile of its grid row.
place_tile_alone(grid, row, column) ==
    [grid EXCEPT ![row] = [c \in Rows |-> c = column]]

\* score_round's `*is_played = true`.
place_tile(grid, row, column) == [grid EXCEPT ![row][column] = TRUE]

\* flush_rows leaving a flushed row locked to its color.
RECURSIVE flush_rows_keep_lock(_, _)
flush_rows_keep_lock(st, row) ==
    IF row >= NumColors \/ st.err THEN st
    ELSE LET count == st.pl.working_count[row]
         IN  IF ~row_complete(count, row) THEN flush_rows_keep_lock(st, row + 1)
             ELSE LET color == st.pl.working_color[row]
                      returned == [st.returned EXCEPT ![color] = @ + (count - 1)]
                      column == played_column(row, color)
                  IN  IF st.pl.played_tiles[row][column] THEN
                          [st EXCEPT !.returned = returned, !.err = TRUE]
                      ELSE LET placed == [st.pl EXCEPT !.played_tiles =
                                             place_tile(@, row, column)]
                               gained == score_tile(placed.played_tiles, row, column)
                           IN  flush_rows_keep_lock(
                                   [pl |-> [placed EXCEPT
                                               !.working_count[row] = 0],
                                    round_score |-> st.round_score + gained,
                                    returned |-> returned,
                                    err |-> FALSE],
                                   row + 1)

\* flush_rows returning every tile of a flushed row, the placed one included.
RECURSIVE flush_rows_return_all(_, _)
flush_rows_return_all(st, row) ==
    IF row >= NumColors \/ st.err THEN st
    ELSE LET count == st.pl.working_count[row]
         IN  IF ~row_complete(count, row) THEN flush_rows_return_all(st, row + 1)
             ELSE LET color == st.pl.working_color[row]
                      returned == [st.returned EXCEPT ![color] = @ + count]
                      column == played_column(row, color)
                  IN  IF st.pl.played_tiles[row][column] THEN
                          [st EXCEPT !.returned = returned, !.err = TRUE]
                      ELSE LET placed == [st.pl EXCEPT !.played_tiles =
                                             place_tile(@, row, column)]
                               gained == score_tile(placed.played_tiles, row, column)
                           IN  flush_rows_return_all(
                                   [pl |-> [placed EXCEPT
                                               !.working_color[row] = Blank,
                                               !.working_count[row] = 0],
                                    round_score |-> st.round_score + gained,
                                    returned |-> returned,
                                    err |-> FALSE],
                                   row + 1)

\* Rows row..4 of score_round's first loop: st holds the board, the round score
\* and the returned tiles so far; err is the "already been played" return.
RECURSIVE flush_rows(_, _)
flush_rows(st, row) ==
    IF row >= NumColors \/ st.err THEN st
    ELSE LET count == st.pl.working_count[row]
         IN  IF ~row_complete(count, row) THEN flush_rows(st, row + 1)
             ELSE LET color == st.pl.working_color[row]
                      returned == [st.returned EXCEPT ![color] = @ + (count - 1)]
                      column == played_column(row, color)
                  IN  IF st.pl.played_tiles[row][column] THEN
                          [st EXCEPT !.returned = returned, !.err = TRUE]
                      ELSE LET placed == [st.pl EXCEPT !.played_tiles =
                                             place_tile(@, row, column)]
                               gained == score_tile(placed.played_tiles, row, column)
                           IN  flush_rows(
                                   [pl |-> [placed EXCEPT
                                               !.working_color[row] = Blank,
                                               !.working_count[row] = 0],
                                    round_score |-> st.round_score + gained,
                                    returned |-> returned,
                                    err |-> FALSE],
                                   row + 1)

\* The penalty with every position past the table charged like the last one.
trash_penalty_unbounded(trashed_tiles) ==
    SumSeq([idx \in 1 .. Len(trashed_tiles) |->
               PENALTIES[Min(idx, Len(PENALTIES))]])

\* score_round's second loop: the penalty of the trash.
trash_penalty(trashed_tiles) ==
    SumSeq([idx \in 1 .. Min(Len(trashed_tiles), Len(PENALTIES)) |-> PENALTIES[idx]])

\* The trash handed back with the start token left in it.
trash_returned_with_token(trashed_tiles) == PileOf(trashed_tiles)

\* score_round's second loop: the trashed tiles it returns, the start token
\* dropped.
trash_returned(trashed_tiles) == [PileOf(trashed_tiles) EXCEPT ![Start] = 0]

\* score_round without the floor.
clamp_round_score_none(prev_score, round_score) == round_score

\* The score floor: the delta score_round records.
clamp_round_score(prev_score, round_score) ==
    IF prev_score + round_score < 0 THEN -prev_score ELSE round_score

\* round_score as computed before the floor is applied (a board that flushes).
raw_round_score(p) ==
    flush_rows([pl |-> p, round_score |-> 0, returned |-> EmptyPile,
                err |-> FALSE], 0).round_score
    + trash_penalty(p.trashed_tiles)

\* The board after the call, the returned tiles and whether it returned Ok.
score_round(p) ==
    LET st == flush_rows([pl |-> p, round_score |-> 0, returned |-> EmptyPile,
                          err |-> FALSE], 0)
    IN  IF st.err THEN [ok |-> FALSE, pl |-> st.pl, returned |-> EmptyPile]
        ELSE LET round_score == st.round_score
                                  + trash_penalty(st.pl.trashed_tiles)
                 returned == PilePlus(st.returned,
                                      trash_returned(st.pl.trashed_tiles))
                 cleared == [st.pl EXCEPT !.trashed_tiles = <<>>]
                 delta == clamp_round_score(score(cleared), round_score)
             IN  [ok |-> TRUE,
                  pl |-> [cleared EXCEPT !.scores = Append(@, delta)],
                  returned |-> returned]

num_full_rows(p) ==
    Cardinality({r \in Rows : \A c \in Rows : p.played_tiles[r][c]})

num_full_columns(p) ==
    Cardinality({col \in Rows : \A i \in Rows : p.played_tiles[i][col]})

num_full_colors(p) ==
    Cardinality({k \in Colors :
        Cardinality({rc \in Rows \X Rows :
            p.played_tiles[rc[1]][rc[2]] /\ played_color(rc[1], rc[2]) = k})
        = NumColors})

\* score_bonuses pushing the column bonus before the row bonus.
score_bonuses_columns_first(p) ==
    [p EXCEPT !.scores = @ \o <<COL_BONUS * num_full_columns(p),
                                 ROW_BONUS * num_full_rows(p),
                                 KIND_BONUS * num_full_colors(p)>>]

score_bonuses(p) ==
    [p EXCEPT !.scores = @ \o <<ROW_BONUS * num_full_rows(p),
                                 COL_BONUS * num_full_columns(p),
                                 KIND_BONUS * num_full_colors(p)>>]

\* PlayerState::valid_moves without the test of the grid cell.
player_valid_moves_ignoring_grid(p, c) ==
    {TrashRow} \cup
    {row \in Rows :
        /\ p.working_color[row] = c \/ p.working_color[row] = Blank
        /\ p.working_count[row] <= row}

\* PlayerState::valid_moves: the rows color c may go to.
player_valid_moves(p, c) ==
    {TrashRow} \cup
    {row \in Rows :
        /\ p.working_color[row] = c \/ p.working_color[row] = Blank
        /\ ~is_played(p, row, c)
        /\ p.working_count[row] <= row}

(* ------------------------------------------------------------------ Move *)
is_from_center(m) == m.factory_idx = 0

\* TRUE when check_validity returns Some(error).
check_validity(m) == ~is_movable(m.color) \/ m.working_row > TrashRow

(* ------------------------------------------------------------- GameState *)
NumFactories == NumPlayers * 2 + 1
Factories == 1 .. NumFactories
Players == 0 .. (NumPlayers - 1)

\* The center HashMap: a color is a key iff its count is positive.
EmptyCenter == [c \in Tiles |-> 0]

\* GameState::new, but for the random start player.
NewGame(first) ==
    [tile_bag |-> [c \in Tiles |-> IF c \in Colors THEN TilesPerColor ELSE 0],
     box_lid |-> EmptyPile,
     factories |-> [f \in Factories |-> EmptyPile],
     center |-> [EmptyCenter EXCEPT ![Start] = 1],
     players |-> [i \in Players |-> NewPlayer],
     start_player_idx |-> first,
     curr_player_idx |-> 0,
     round_number |-> 0]

is_start_token_available(g) == g.start_player_idx = NumPlayers

\* start_round's loop from factory f on: every state it can end in.  A factory
\* gets FactorySize pops of the bag; the pop that finds the bag empty returns
\* before round_number is incremented.
RECURSIVE fill_factories(_, _)
fill_factories(g, f) ==
    IF f > NumFactories THEN {[g EXCEPT !.round_number = @ + 1]}
    ELSE LET n == Min(PileSize(g.tile_bag), FactorySize)
         IN  UNION {
                 LET filled == [g EXCEPT !.tile_bag = PileMinus(@, d),
                                         !.factories[f] = PilePlus(@, d)]
                 IN  IF n < FactorySize THEN {filled}
                     ELSE fill_factories(filled, f + 1)
                 : d \in Pops(g.tile_bag, n)}

\* start_round taking the box lid into the tile bag before it deals.
start_round_from_lid(g) ==
    fill_factories([g EXCEPT !.curr_player_idx = g.start_player_idx,
                             !.start_player_idx = NumPlayers,
                             !.center[Start] = 1,
                             !.tile_bag = PilePlus(@, g.box_lid),
                             !.box_lid = EmptyPile], 1)

start_round(g) ==
    fill_factories([g EXCEPT !.curr_player_idx = g.start_player_idx,
                             !.start_player_idx = NumPlayers,
                             !.center[Start] = 1], 1)

\* is_round_over overlooking the start token in the center.
is_round_over_ignoring_token(g) ==
    /\ \A c \in Colors : g.center[c] = 0
    /\ \A f \in Factories : PileSize(g.factories[f]) = 0

is_round_over(g) ==
    /\ \A c \in DOMAIN g.center : g.center[c] = 0
    /\ \A f \in Factories : PileSize(g.factories[f]) = 0

\* res: "ok" with the count n, "err", or "panic" (index out of bounds).
num_tiles_taken(g, m) ==
    IF is_from_center(m) THEN
        IF m.color \in DOMAIN g.center /\ g.center[m.color] > 0
        THEN [res |-> "ok", n |-> g.center[m.color]]
        ELSE [res |-> "err", n |-> 0]
    ELSE IF m.factory_idx \notin Factories THEN [res |-> "panic", n |-> 0]
    ELSE [res |-> "ok",
          n |-> IF m.color \in Tiles THEN g.factories[m.factory_idx][m.color]
                ELSE 0]

\* The whole factory poured into the center, the drafted color too.
spill_all(pool, factory, color) ==
    [c \in DOMAIN pool |-> pool[c] + factory[c]]

\* take_turn's loop over the drafted factory: every tile not of the drafted
\* color goes to the center.
spill(pool, factory, color) ==
    [c \in DOMAIN pool |-> IF c # color THEN pool[c] + factory[c] ELSE pool[c]]

\* The start token goes with whatever is drafted, an offer included.
taking_start_token_any_source(g, m) == is_start_token_available(g)

\* take_turn's taking_start_token.
taking_start_token(g, m) == is_from_center(m) /\ is_start_token_available(g)

\* The next player without the wrap-around.
next_player_idx_no_wrap(idx) == idx + 1

\* take_turn's set-up for the next player.
next_player_idx(idx) == (idx + 1) % NumPlayers

\* The state after the call and its result: "ok_true", "ok_false", "err", or
\* "panic" (an index out of bounds, or the assert_eq on the start token).
take_turn(g, m) ==
    IF check_validity(m) THEN [g |-> g, res |-> "err"]
    ELSE
    LET claims_token == taking_start_token(g, m)
        taken == num_tiles_taken(g, m)
    IN
    IF taken.res # "ok" THEN [g |-> g, res |-> taken.res]
    ELSE IF taken.n = 0 THEN [g |-> g, res |-> "err"]
    ELSE IF g.curr_player_idx \notin Players THEN [g |-> g, res |-> "panic"]
    ELSE
    LET added == add_tiles(g.players[g.curr_player_idx], m.working_row,
                           m.color, taken.n)
        g1 == [g EXCEPT !.players[g.curr_player_idx] = added.pl]
    IN
    IF ~added.ok THEN [g |-> g1, res |-> "err"]
    ELSE
    LET g2 == IF is_from_center(m)
              THEN [g1 EXCEPT !.center[m.color] = 0]
              ELSE [g1 EXCEPT
                      !.center = spill(@, g1.factories[m.factory_idx], m.color),
                      !.factories[m.factory_idx] = EmptyPile]
    IN
    IF claims_token /\ g2.center[Start] # 1 THEN
        [g |-> [g2 EXCEPT
                  !.start_player_idx = g2.curr_player_idx,
                  !.players[g2.curr_player_idx] = send_to_trash(@, Start, 1),
                  !.center[Start] = 0],
         res |-> "panic"]
    ELSE
    LET g3 == IF claims_token
              THEN [g2 EXCEPT
                      !.start_player_idx = g2.curr_player_idx,
                      !.players[g2.curr_player_idx] = send_to_trash(@, Start, 1),
                      !.center[Start] = 0]
              ELSE g2
    IN
    IF is_round_over(g3) THEN [g |-> g3, res |-> "ok_true"]
    ELSE [g |-> [g3 EXCEPT !.curr_player_idx = next_player_idx(@)],
          res |-> "ok_false"]

\* is_finished asking for a full row on every board.
is_finished_all(g) == \A i \in Players : num_full_rows(g.players[i]) > 0

is_finished(g) == \E i \in Players : num_full_rows(g.players[i]) > 0

\* finish_round's first loop from player i on; err is a score_round error,
\* returned through `?` with the boards scored so far left as they are.
RECURSIVE score_players(_, _)
score_players(g, i) ==
    IF i >= NumPlayers THEN [g |-> g, err |-> FALSE]
    ELSE LET scored == score_round(g.players[i])
             g1 == [g EXCEPT !.players[i] = scored.pl]
         IN  IF ~scored.ok THEN [g |-> g1, err |-> TRUE]
             ELSE score_players(
                      [g1 EXCEPT !.box_lid = PilePlus(@, scored.returned)],
                      i + 1)

\* The refill made also when the draw pile holds exactly one full deal.
prep_tile_bag_at_full_deal(g) ==
    IF PileSize(g.tile_bag) <= FactorySize * NumFactories
    THEN [g EXCEPT !.tile_bag = PilePlus(@, g.box_lid), !.box_lid = EmptyPile]
    ELSE g

\* The draw pile is refilled from the box lid when it cannot fill every factory.
prep_tile_bag(g) ==
    IF PileSize(g.tile_bag) < FactorySize * NumFactories
    THEN [g EXCEPT !.tile_bag = PilePlus(@, g.box_lid), !.box_lid = EmptyPile]
    ELSE g

\* finish_round without its round-over check.
finish_round_unchecked(g) ==
    LET scored == score_players(g, 0)
    IN
    IF scored.err THEN [g |-> scored.g, res |-> "err"]
    ELSE IF is_finished(scored.g) THEN
        [g |-> [scored.g EXCEPT !.players =
                    [i \in Players |-> score_bonuses(scored.g.players[i])]],
         res |-> "ok_true"]
    ELSE [g |-> prep_tile_bag(scored.g), res |-> "ok_false"]

finish_round(g) ==
    IF ~is_round_over(g) THEN [g |-> g, res |-> "err"]
    ELSE
    LET scored == score_players(g, 0)
    IN
    IF scored.err THEN [g |-> scored.g, res |-> "err"]
    ELSE IF is_finished(scored.g) THEN
        [g |-> [scored.g EXCEPT !.players =
                    [i \in Players |-> score_bonuses(scored.g.players[i])]],
         res |-> "ok_true"]
    ELSE [g |-> prep_tile_bag(scored.g), res |-> "ok_false"]

Move(f, c, r) == [factory_idx |-> f, color |-> c, working_row |-> r]

valid_moves(g) ==
    LET player == g.players[g.curr_player_idx]
    IN  {m \in [factory_idx : Factories, color : Colors,
                working_row : 0 .. TrashRow] :
            /\ g.factories[m.factory_idx][m.color] > 0
            /\ m.working_row \in player_valid_moves(player, m.color)}
        \cup
        {m \in [factory_idx : {0}, color : Colors, working_row : 0 .. TrashRow] :
            /\ g.center[m.color] > 0
            /\ m.working_row \in player_valid_moves(player, m.color)}

(* ---------------------------------------------------------------- agents *)
\* GreedyAgent::new: the weights of the heuristic bias.
first_player_bias == 0
new_row_bias == -50
new_row_bias_factor == -1
center_bias == 10
num_tiles_bias == 10
middle_bias == 0

\* player_score: score_round, score_bonuses, then the total; ok is FALSE when
\* the expect on score_round panics.
player_score(p) ==
    LET r == score_round(p)
    IN  [ok |-> r.ok, score |-> score(score_bonuses(r.pl))]

\* score_move without the trash entry it adds for the start token.
score_move_without_token(g, m) ==
    LET player == g.players[g.curr_player_idx]
        claims == is_from_center(m) /\ is_start_token_available(g)
        taken == num_tiles_taken(g, m)
        column == played_column(m.working_row, m.color)
        bias == (IF is_from_center(m) THEN center_bias ELSE 0)
                + (IF claims THEN first_player_bias ELSE 0)
                + (IF is_new_working_row(player, m.working_row)
                   THEN new_row_bias + m.working_row * new_row_bias_factor
                   ELSE 0)
                + num_tiles_bias * taken.n
                + middle_bias * (2 - column)
        added == add_tiles(player, m.working_row, m.color, taken.n)
        total == player_score(added.pl)
    IN  [ok |-> taken.res = "ok" /\ added.ok /\ total.ok,
         score |-> total.score, bias |-> bias]

\* GreedyAgent::score_move: the key (score, bias) of Move m, computed on a
\* clone of the current player's board; ok is FALSE when one of its expects
\* panics.
score_move(g, m) ==
    LET live == g.players[g.curr_player_idx]
        claims == is_from_center(m) /\ is_start_token_available(g)
        player == IF claims THEN send_to_trash(live, m.color, 1) ELSE live
        taken == num_tiles_taken(g, m)
        column == played_column(m.working_row, m.color)
        bias == (IF is_from_center(m) THEN center_bias ELSE 0)
                + (IF claims THEN first_player_bias ELSE 0)
                + (IF is_new_working_row(player, m.working_row)
                   THEN new_row_bias + m.working_row * new_row_bias_factor
                   ELSE 0)
                + num_tiles_bias * taken.n
                + middle_bias * (2 - column)
        added == add_tiles(player, m.working_row, m.color, taken.n)
        total == player_score(added.pl)
    IN  [ok |-> taken.res = "ok" /\ added.ok /\ total.ok,
         score |-> total.score, bias |-> bias]

\* The order of (i32, i32) keys.
KeyLess(a, b) == a.score < b.score \/ (a.score = b.score /\ a.bias < b.bias)

\* Iterator::max_by_key: the index of the last of the maximal keys.
last_max(keys) ==
    CHOOSE i \in 1 .. Len(keys) :
        /\ \A j \in 1 .. Len(keys) : ~KeyLess(keys[i], keys[j])
        /\ \A j \in (i + 1) .. Len(keys) : KeyLess(keys[j], keys[i])

RECURSIVE Ascending(_)
Ascending(S) ==
    IF S = {} THEN <<>>
    ELSE LET x == CHOOSE x \in S : \A y \in S : x <= y
         IN  <<x>> \o Ascending(S \ {x})

RECURSIVE Flatten(_)
Flatten(ss) == IF ss = <<>> THEN <<>> ELSE Head(ss) \o Flatten(Tail(ss))

\* PlayerState::valid_moves as the Vec it returns: 5 first, then the rows in
\* ascending order.
color_moves(p, c) ==
    <<TrashRow>> \o Ascending(player_valid_moves(p, c) \ {TrashRow})

\* The Moves valid_moves pushes for color c of source f.
source_moves(g, f, c) ==
    LET rows == color_moves(g.players[g.curr_player_idx], c)
    IN  [k \in 1 .. Len(rows) |-> Move(f, c, rows[k])]

\* center.keys(): the movable colors of the center in every order a HashMap
\* may iterate in.
center_key_orders(g) ==
    LET keys == {c \in Colors : g.center[c] > 0}
    IN  {s \in [1 .. Cardinality(keys) -> keys] :
            \A i, j \in 1 .. Cardinality(keys) : s[i] = s[j] => i = j}

\* GameState::valid_moves as the Vec it returns when the center iterates in
\* the order keys.
valid_moves_in_order(g, keys) ==
    Flatten([f \in 1 .. NumFactories |->
                Flatten([k \in 1 .. NumColors |->
                            IF g.factories[f][k - 1] > 0
                            THEN source_moves(g, f, k - 1) ELSE <<>>])])
    \o Flatten([k \in 1 .. Len(keys) |-> source_moves(g, 0, keys[k])])

\* GreedyAgent::choose_action: the Moves it can return (one per iteration
\* order of the center); it panics when there are no valid moves.
greedy_choose_action(g) ==
    IF valid_moves(g) = {} THEN {}
    ELSE {LET ms == valid_moves_in_order(g, o)
          IN  ms[last_max([i \in 1 .. Len(ms) |-> score_move(g, ms[i])])]
          : o \in center_key_orders(g)}

\* RoundPlanningAgent::new: the number of candidates.
num_branches == 5

\* What a simulation hands back: a score, or a panic (ok is FALSE).
Panicked == [ok |-> FALSE, score |-> 0, bias |-> 0]

Scored(ps) == [ok |-> ps.ok, score |-> IF ps.ok THEN ps.score ELSE 0, bias |-> 0]

\* slice::sort_by_cached_key: the stable ascending sort of ms by keys.
sort_by_cached_key(ms, keys) ==
    LET pos(i) == 1 + Cardinality({j \in 1 .. Len(ms) :
                          \/ KeyLess(keys[j], keys[i])
                          \/ ~KeyLess(keys[i], keys[j]) /\ j < i})
    IN  [p \in 1 .. Len(ms) |-> ms[CHOOSE i \in 1 .. Len(ms) : pos(i) = p]]

\* The candidates of RoundPlanningAgent::choose_action: the last num_branches
\* moves of the sorted Vec, all of them when there are fewer.
candidates(g, o) ==
    LET ms == valid_moves_in_order(g, o)
        sorted == sort_by_cached_key(ms, [i \in 1 .. Len(ms) |-> score_move(g, ms[i])])
        start == IF Len(ms) >= num_branches THEN Len(ms) - num_branches ELSE 0
    IN  SubSeq(sorted, start + 1, Len(ms))

RECURSIVE planning_choose_action(_, _)
RECURSIVE rollout(_, _, _)
RECURSIVE simulate(_, _, _, _)

\* The closure of max_by_key in choose_action, and the body of rollout's loop
\* after the choice: Move m played on the clone g, then the score of player
\* idx when the round is over, the rest of the rollout otherwise.  The set
\* holds every outcome the iteration orders of the center allow.
simulate(idx, g, m, recurse) ==
    LET r == take_turn(g, m)
    IN  IF r.res = "ok_true" THEN {Scored(player_score(r.g.players[idx]))}
        ELSE IF r.res = "ok_false" THEN rollout(idx, r.g, recurse)
        ELSE {Panicked}

\* RoundPlanningAgent::rollout from the clone g for player idx.
rollout(idx, g, recurse) ==
    LET own == recurse /\ g.curr_player_idx = idx
        chosen == IF own THEN planning_choose_action(g, recurse)
                  ELSE [panics |-> valid_moves(g) = {},
                        moves |-> greedy_choose_action(g)]
    IN  (IF chosen.panics THEN {Panicked} ELSE {})
        \cup UNION {simulate(idx, g, m, recurse) : m \in chosen.moves}

\* RoundPlanningAgent::choose_action: the Moves it can return, and whether it
\* can panic (no valid move, or a panic inside a simulation).
planning_choose_action(g, recurse) ==
    IF valid_moves(g) = {} THEN [panics |-> TRUE, moves |-> {}]
    ELSE LET runs ==
                 {LET cs == candidates(g, o)
                      outs == [i \in 1 .. Len(cs) |->
                                  simulate(g.curr_player_idx, g, cs[i], recurse)]
                      good == {f \in [1 .. Len(cs) -> UNION {outs[i] : i \in 1 .. Len(cs)}] :
                                  \A i \in 1 .. Len(cs) : f[i] \in outs[i] /\ f[i].ok}
                  IN  [panics |-> \E i \in 1 .. Len(cs) : \E x \in outs[i] : ~x.ok,
                       moves |-> {cs[last_max(f)] : f \in good}]
                  : o \in center_key_orders(g)}
         IN  [panics |-> \E run \in runs : run.panics,
              moves |-> UNION {run.moves : run \in runs}]

(* --------------------------------------------------------- state machine *)
\* The GameState the variables hold.
GS ==
    [tile_bag |-> tile_bag, box_lid |-> box_lid, factories |-> factories,
     center |-> center, players |-> players,
     start_player_idx |-> start_player_idx,
     curr_player_idx |-> curr_player_idx, round_number |-> round_number]

Becomes(g) ==
    /\ tile_bag' = g.tile_bag
    /\ box_lid' = g.box_lid
    /\ factories' = g.factories
    /\ center' = g.center
    /\ players' = g.players
    /\ start_player_idx' = g.start_player_idx
    /\ curr_player_idx' = g.curr_player_idx
    /\ round_number' = g.round_number

\* Every Move value a caller can pass, the malformed ones included.
Moves ==
    [factory_idx : 0 .. (NumFactories + 1), color : ColorValues,
     working_row : 0 .. (TrashRow + 1)]

\* The agent of a seat: None (a human), or one of the agents.
AgentKinds == {"human", "random", "greedy"}

\* The BlauAPI fields next to the game state: game_over, the agents, the place
\* the call in flight is at (idle between calls, or in the loop of
\* process_agents), the GameState operations the last step invoked, and
\* whether the instance was built by restore.  NoApi is the value where the
\* game state is driven without the wrapper.
NoApi ==
    [game_over |-> FALSE, agents |-> [i \in 0 .. (NumPlayers - 1) |-> "human"],
     pc |-> "idle", invoked |-> {}, restored |-> FALSE]

\* A panic aborts the process: nothing is called after it.
Running == ret # "panic"

\* rng.random_range(0..player_names.len()) picks the first start player.
Init ==
    /\ \E first \in Players :
          LET g == NewGame(first)
          IN  /\ tile_bag = g.tile_bag
              /\ box_lid = g.box_lid
              /\ factories = g.factories
              /\ center = g.center
              /\ players = g.players
              /\ start_player_idx = g.start_player_idx
              /\ curr_player_idx = g.curr_player_idx
              /\ round_number = g.round_number
    /\ op = "new"
    /\ ret = "ok"
    /\ phase = "Setup"
    /\ in_order = TRUE
    /\ board = NewPlayer
    /\ twin = <<>>
    /\ api = NoApi

StartRound ==
    /\ Running
    /\ Len(players[0].scores) < MaxRounds
    /\ \E g \in start_round(GS) : Becomes(g)
    /\ op' = "start_round"
    /\ ret' = "ok"
    /\ phase' = "RoundInProgress"
    /\ in_order' = (in_order /\ phase \in {"Setup", "Scored"})
    /\ board' = board
    /\ twin' = twin
    /\ api' = api

TakeTurn(m) ==
    /\ Running
    /\ \E r \in {take_turn(GS, m)} :
           /\ Becomes(r.g)
           /\ ret' = r.res
           /\ phase' = IF r.res = "ok_true" THEN "RoundOver" ELSE phase
    /\ op' = "take_turn"
    /\ in_order' = (in_order /\ phase = "RoundInProgress")
    /\ board' = board
    /\ twin' = twin
    /\ api' = api

FinishRound ==
    /\ Running
    /\ Len(players[0].scores) < MaxRounds
    /\ \E r \in {finish_round(GS)} :
           /\ Becomes(r.g)
           /\ ret' = r.res
           /\ phase' = CASE r.res = "ok_true" -> "GameOver"
                         [] r.res = "ok_false" -> "Scored"
                         [] OTHER -> phase
    /\ op' = "finish_round"
    /\ in_order' = (in_order /\ phase = "RoundOver")
    /\ board' = board
    /\ twin' = twin
    /\ api' = api

\* Any caller of the public operations, in any order.  phase follows the calls
\* (the round the game is in) and in_order records whether every call so far
\* came at its place in the lifecycle below.
Next ==
    \/ StartRound
    \/ \E m \in Moves : TakeTurn(m)
    \/ FinishRound

Spec == Init /\ [][Next]_vars

\* The driver of the spec's lifecycle (BlauAPI::start and do_action): start_round,
\* then take_turn until it signals round-over, then finish_round, then the next
\* start_round unless the game is over.
DriverStart == phase \in {"Setup", "Scored"} /\ StartRound

DriverTurn == phase = "RoundInProgress" /\ \E m \in Moves : TakeTurn(m)

DriverFinish == phase = "RoundOver" /\ FinishRound

DriverNext == DriverStart \/ DriverTurn \/ DriverFinish

SpecDriver == Init /\ [][DriverNext]_vars

(* ------------------------------------------ a driver playing legal moves *)
\* A turn as the agents and process_agents play it: a Move of valid_moves().
LegalTurn == phase = "RoundInProgress" /\ \E m \in valid_moves(GS) : TakeTurn(m)

LegalNext == DriverStart \/ LegalTurn \/ DriverFinish

\* The driver keeps playing: as long as a legal move exists, one is played.
SpecLegal == Init /\ [][LegalNext]_vars /\ WF_vars(LegalTurn)

(* --------------------------------------------------------------- BlauAPI *)
\* The MoveMessages a client can send: a color index one past the colors
\* included (try_into fails on it), and indices one past the offers and rows.
MoveMessages ==
    [color : 0 .. NumColors, factory : 0 .. (NumFactories + 1),
     working : 0 .. (TrashRow + 1)]

\* MoveMessage::to_move: Err("Invalid color") unless the index is a color's.
to_move(msg) ==
    [ok |-> msg.color \in Colors,
     m |-> Move(msg.factory, msg.color, msg.working)]

\* MoveMessage::from_move.
from_move(mv) ==
    [color |-> mv.color, factory |-> mv.factory_idx, working |-> mv.working_row]

\* do_action after finish_round returned f: game_over is what it returned, and
\* start_round follows unless the game is over.
after_finish_round(over, f) ==
    IF f.res = "err" THEN
        {[g |-> f.g, game_over |-> over, res |-> "err",
          invoked |-> {"take_turn", "finish_round"}]}
    ELSE IF f.res = "ok_true" THEN
        {[g |-> f.g, game_over |-> TRUE, res |-> "ok",
          invoked |-> {"take_turn", "finish_round"}]}
    ELSE {[g |-> s, game_over |-> FALSE, res |-> "ok",
           invoked |-> {"take_turn", "finish_round", "start_round"}]
          : s \in start_round(f.g)}

\* do_action after take_turn returned t: finish_round follows when the round
\* is over.
after_take_turn(over, t) ==
    IF t.res \in {"err", "panic"} THEN
        {[g |-> t.g, game_over |-> over, res |-> t.res,
          invoked |-> {"take_turn"}]}
    ELSE IF t.res = "ok_false" THEN
        {[g |-> t.g, game_over |-> over, res |-> "ok",
          invoked |-> {"take_turn"}]}
    ELSE UNION {after_finish_round(over, f) : f \in {finish_round(t.g)}}

\* do_action of an instance whose game_over is over, on state g: every outcome
\* (start_round deals in any order): the state, game_over, "ok", "err" or
\* "panic", and the GameState operations invoked.
do_action(over, g, msg) ==
    IF ~to_move(msg).ok THEN
        {[g |-> g, game_over |-> over, res |-> "err", invoked |-> {}]}
    ELSE UNION {after_take_turn(over, t) : t \in {take_turn(g, to_move(msg).m)}}

\* process_action going on to do_action whatever game_over is.
process_action_rejects_never(a) == FALSE

\* process_action's `if self.game_over { return Err("Game is over") }`.
process_action_rejects(a) == a.game_over

\* Agent::choose_action of the agent kind on state g: the Moves it can return
\* (none: it panics).
agent_moves(kind, g) ==
    IF kind = "random" THEN valid_moves(g) ELSE greedy_choose_action(g)

\* The bound on the rounds of a game: a turn is played while fewer than
\* MaxRounds rounds have been scored.
RoundsLeft == api.game_over \/ Len(players[0].scores) < MaxRounds

\* The phase the lifecycle is in after a do_action outcome.
PhaseAfter(r) ==
    IF r.game_over THEN "GameOver"
    ELSE IF "start_round" \in r.invoked THEN "RoundInProgress"
    ELSE phase

\* BlauAPI::init: game_over false, every seat a human or an agent.
ApiInit ==
    /\ \E first \in Players :
          /\ tile_bag = NewGame(first).tile_bag
          /\ box_lid = NewGame(first).box_lid
          /\ factories = NewGame(first).factories
          /\ center = NewGame(first).center
          /\ players = NewGame(first).players
          /\ start_player_idx = NewGame(first).start_player_idx
          /\ curr_player_idx = NewGame(first).curr_player_idx
          /\ round_number = NewGame(first).round_number
    /\ op = "init"
    /\ ret = "ok"
    /\ phase = "Setup"
    /\ in_order = TRUE
    /\ board = NewPlayer
    /\ twin = <<>>
    /\ \E a \in [Players -> AgentKinds] : api = [NoApi EXCEPT !.agents = a]

\* BlauAPI::start up to its call of process_agents.  in_order records that
\* start was only called first thing after init.
ApiStart ==
    /\ Running
    /\ api.pc = "idle"
    /\ \E g \in start_round(GS) : Becomes(g)
    /\ op' = "start"
    /\ ret' = "ok"
    /\ phase' = IF api.game_over THEN phase ELSE "RoundInProgress"
    /\ in_order' = (in_order /\ phase = "Setup")
    /\ api' = [api EXCEPT !.pc = "agents", !.invoked = {"start_round"}]
    /\ UNCHANGED <<board, twin>>

\* BlauAPI::process_action up to its call of process_agents.
ApiProcessAction(msg) ==
    /\ Running
    /\ api.pc = "idle"
    /\ IF process_action_rejects(api)
       THEN /\ ret' = "err"
            /\ api' = [api EXCEPT !.invoked = {}]
            /\ UNCHANGED <<gameVars, phase>>
       ELSE /\ RoundsLeft
            /\ \E r \in do_action(api.game_over, GS, msg) :
                  /\ Becomes(r.g)
                  /\ ret' = r.res
                  /\ phase' = PhaseAfter(r)
                  /\ api' = [api EXCEPT
                               !.game_over = r.game_over,
                               !.invoked = r.invoked,
                               !.pc = IF r.res = "ok" THEN "agents" ELSE "idle"]
    /\ op' = "process_action"
    /\ UNCHANGED <<in_order, board, twin>>

\* One pass of the loop of process_agents: it ends when the game is over or
\* the next player is a human, and plays the agent's Move otherwise; indexing
\* agents with the sentinel player index panics, and so does an agent without
\* a valid move.
ApiAgentStep ==
    /\ Running
    /\ api.pc = "agents"
    /\ IF api.game_over THEN
           /\ ret' = "ok"
           /\ api' = [api EXCEPT !.pc = "idle", !.invoked = {}]
           /\ UNCHANGED <<gameVars, phase>>
       ELSE IF curr_player_idx \notin Players THEN
           /\ ret' = "panic"
           /\ api' = [api EXCEPT !.invoked = {}]
           /\ UNCHANGED <<gameVars, phase>>
       ELSE IF api.agents[curr_player_idx] = "human" THEN
           /\ ret' = "ok"
           /\ api' = [api EXCEPT !.pc = "idle", !.invoked = {}]
           /\ UNCHANGED <<gameVars, phase>>
       ELSE \E ms \in {agent_moves(api.agents[curr_player_idx], GS)} :
            IF ms = {} THEN
                /\ ret' = "panic"
                /\ api' = [api EXCEPT !.invoked = {}]
                /\ UNCHANGED <<gameVars, phase>>
            ELSE /\ RoundsLeft
                 /\ \E mv \in ms :
                    \E r \in do_action(api.game_over, GS, from_move(mv)) :
                       /\ Becomes(r.g)
                       /\ ret' = r.res
                       /\ phase' = PhaseAfter(r)
                       /\ api' = [api EXCEPT
                                    !.game_over = r.game_over,
                                    !.invoked = r.invoked,
                                    !.pc = IF r.res = "ok" THEN "agents"
                                           ELSE "idle"]
    /\ op' = "process_agents"
    /\ UNCHANGED <<in_order, board, twin>>

\* restore's game_over.
restore_game_over == TRUE

\* final_state of a finished game followed by BlauAPI::restore: the draw and
\* discard piles are serialized as their lengths and skipped when
\* deserializing, there are no agents, and game_over is true.
ApiRestore ==
    /\ Running
    /\ api.pc = "idle"
    /\ api.game_over
    /\ Becomes([GS EXCEPT !.tile_bag = EmptyPile, !.box_lid = EmptyPile])
    /\ api' = [game_over |-> restore_game_over,
               agents |-> [i \in Players |-> "human"],
               pc |-> "idle", invoked |-> {}, restored |-> TRUE]
    /\ op' = "restore"
    /\ ret' = "ok"
    /\ phase' = "GameOver"
    /\ UNCHANGED <<in_order, board, twin>>

\* Any caller of the wrapper's operations, in any order.
ApiNext ==
    \/ ApiStart
    \/ \E msg \in MoveMessages : ApiProcessAction(msg)
    \/ ApiAgentStep
    \/ ApiRestore

SpecApi == ApiInit /\ [][ApiNext]_vars

(* ------------------------------------------------- one PlayerState alone *)
\* The arguments add_tiles is called with: any row up to one past the trash
\* row, a movable color or the start token, and up to MaxAdd tiles.
AddArgs == [row : 0 .. (TrashRow + 1), color : Tiles, num_tiles : 0 .. MaxAdd]

\* A caller of PlayerState's public operations on one board, in any order.
BoardAddTiles(a) ==
    /\ Len(board.trashed_tiles) + a.num_tiles <= MaxTrash
    /\ \E r \in {add_tiles(board, a.row, a.color, a.num_tiles)} :
           /\ board' = r.pl
           /\ ret' = IF r.ok THEN "ok" ELSE "err"
    /\ op' = "add_tiles"
    /\ UNCHANGED <<gameVars, phase, in_order, twin, api>>

BoardScoreRound ==
    /\ Len(board.scores) < MaxRounds
    /\ \E r \in {score_round(board)} :
           /\ board' = r.pl
           /\ ret' = IF r.ok THEN "ok" ELSE "err"
    /\ op' = "score_round"
    /\ UNCHANGED <<gameVars, phase, in_order, twin, api>>

BoardScoreBonuses ==
    /\ Len(board.scores) < MaxRounds
    /\ board' = score_bonuses(board)
    /\ op' = "score_bonuses"
    /\ ret' = "ok"
    /\ UNCHANGED <<gameVars, phase, in_order, twin, api>>

BoardNext ==
    \/ \E a \in AddArgs : BoardAddTiles(a)
    \/ BoardScoreRound
    \/ BoardScoreBonuses

SpecBoard == Init /\ [][BoardNext]_vars

(* ------------------------------------------- one PlayerState's long trash *)
\* The longest trash of the boards below: one entry more than PENALTIES has.
LongTrash == 8

\* Boards at the start of a round: a new one, and one that has scored a
\* single tile in the round before.
TrashBoards ==
    {NewPlayer, score_round(add_tiles(NewPlayer, 0, 0, 1).pl).pl}

TrashInit ==
    /\ tile_bag = NewGame(0).tile_bag
    /\ box_lid = NewGame(0).box_lid
    /\ factories = NewGame(0).factories
    /\ center = NewGame(0).center
    /\ players = NewGame(0).players
    /\ start_player_idx = NewGame(0).start_player_idx
    /\ curr_player_idx = NewGame(0).curr_player_idx
    /\ round_number = NewGame(0).round_number
    /\ op = "new"
    /\ ret = "ok"
    /\ phase = "Setup"
    /\ in_order = TRUE
    /\ board \in TrashBoards
    /\ twin = <<>>
    /\ api = NoApi

\* add_tiles with the trash row (what send_to_trash and take_turn's drafts to
\* row 5 do), up to LongTrash entries.
TrashAddTiles(a) ==
    /\ a.row = TrashRow
    /\ Len(board.trashed_tiles) + a.num_tiles <= LongTrash
    /\ \E r \in {add_tiles(board, a.row, a.color, a.num_tiles)} :
           /\ board' = r.pl
           /\ ret' = IF r.ok THEN "ok" ELSE "err"
    /\ op' = "add_tiles"
    /\ UNCHANGED <<gameVars, phase, in_order, twin, api>>

TrashNext ==
    \/ \E a \in AddArgs : TrashAddTiles(a)
    \/ BoardScoreRound

SpecTrash == TrashInit /\ [][TrashNext]_vars

(* ------------------------------------------ a game at the end of a round *)
\* Boards at the end of a round: a board as the round before left it (new, or
\* scored once with or without a first tile on the grid) that has since taken
\* nothing or one draft of MaxAdd tiles of a color.
PilesBoards(scored) ==
    LET bases == IF scored
                 THEN {score_round(NewPlayer).pl,
                       score_round(add_tiles(NewPlayer, 0, 0, 1).pl).pl}
                 ELSE {NewPlayer}
    IN  bases \cup
        {add_tiles(b, row, c, MaxAdd).pl :
            b \in bases, row \in 0 .. TrashRow, c \in Colors}

PilesBags ==
    {[c \in Tiles |-> IF c = Start THEN 0 ELSE n[c]] :
        n \in [Colors -> {BagMin, BagMax}]}

PilesLids == {EmptyPile, [EmptyPile EXCEPT ![0] = 1]}

\* A game picked up when take_turn has just signalled round-over: offers and
\* pool are empty, the start token is in the trash of the player marked to
\* start the next round, and draw and discard pile hold what earlier rounds
\* left, from less than a full deal to more than one.
PilesInit ==
    /\ \E first \in Players : \E scored \in BOOLEAN :
       \E bs \in [Players -> PilesBoards(scored)] :
           /\ players = [bs EXCEPT ![first] = send_to_trash(@, Start, 1)]
           /\ start_player_idx = first
           /\ curr_player_idx = first
           /\ round_number = IF scored THEN 2 ELSE 1
    /\ tile_bag \in PilesBags
    /\ box_lid \in PilesLids
    /\ factories = [f \in Factories |-> EmptyPile]
    /\ center = EmptyCenter
    /\ op = "take_turn"
    /\ ret = "ok_true"
    /\ phase = "RoundOver"
    /\ in_order = TRUE
    /\ board = NewPlayer
    /\ twin = <<>>
    /\ api = NoApi

\* The driver's finish_round and the start_round that follows it.
PilesNext == DriverFinish \/ DriverStart

SpecPiles == PilesInit /\ [][PilesNext]_vars

(* ------------------------------------------- two instances, one seed *)
\* The orders a shuffle can leave a pile in.
Shuffles(pile) ==
    {s \in [1 .. PileSize(pile) -> Tiles] : PileOf(s) = pile}

\* start_round's loop from factory f on, for an instance whose tile_bag has
\* the order deck: pop takes the last tile.
RECURSIVE deal_from(_, _)
deal_from(inst, f) ==
    IF f > NumFactories THEN [inst EXCEPT !.g.round_number = @ + 1]
    ELSE LET n == Min(Len(inst.deck), FactorySize)
             d == PileOf(SubSeq(inst.deck, Len(inst.deck) - n + 1,
                                Len(inst.deck)))
             filled == [g |-> [inst.g EXCEPT !.tile_bag = PileMinus(@, d),
                                             !.factories[f] = PilePlus(@, d)],
                        deck |-> SubSeq(inst.deck, 1, Len(inst.deck) - n)]
         IN  IF n < FactorySize THEN filled ELSE deal_from(filled, f + 1)

ordered_start_round(inst) ==
    deal_from([inst EXCEPT !.g.curr_player_idx = inst.g.start_player_idx,
                           !.g.start_player_idx = NumPlayers,
                           !.g.center[Start] = 1], 1)

\* The orders finish_round can leave the tile bag in: when it refills the bag
\* it shuffles it with rand::rng(), a source of its own.
orders_after_finish(inst, r) ==
    IF r.res = "ok_false"
           /\ PileSize(inst.g.tile_bag) < FactorySize * NumFactories
    THEN Shuffles(r.g.tile_bag)
    ELSE {inst.deck}

\* GameState::new twice with the same rng sequence: the same shuffle and the
\* same first start player.
TwinNew ==
    /\ twin = <<>>
    /\ api = NoApi
    /\ \E first \in Players : \E deck \in Shuffles(NewGame(first).tile_bag) :
           twin' = <<[g |-> NewGame(first), deck |-> deck],
                     [g |-> NewGame(first), deck |-> deck]>>
    /\ op' = "new"
    /\ ret' = "ok"
    /\ UNCHANGED <<gameVars, phase, in_order, board, api>>

\* The same call made on both instances; phase follows the first one.
TwinStart ==
    /\ Len(twin) = 2
    /\ phase \in {"Setup", "Scored"}
    /\ Len(twin[1].g.players[0].scores) < MaxRounds
    /\ twin' = <<ordered_start_round(twin[1]), ordered_start_round(twin[2])>>
    /\ op' = "start_round"
    /\ ret' = "ok"
    /\ phase' = "RoundInProgress"
    /\ UNCHANGED <<gameVars, in_order, board, api>>

TwinTurn(m) ==
    /\ Len(twin) = 2
    /\ phase = "RoundInProgress"
    /\ \E ra \in {take_turn(twin[1].g, m)} :
       \E rb \in {take_turn(twin[2].g, m)} :
           /\ ra.res # "panic" /\ rb.res # "panic"
           /\ twin' = <<[twin[1] EXCEPT !.g = ra.g],
                        [twin[2] EXCEPT !.g = rb.g]>>
           /\ ret' = ra.res
           /\ phase' = IF ra.res = "ok_true" THEN "RoundOver" ELSE phase
    /\ op' = "take_turn"
    /\ UNCHANGED <<gameVars, in_order, board, api>>

TwinFinish ==
    /\ Len(twin) = 2
    /\ phase = "RoundOver"
    /\ Len(twin[1].g.players[0].scores) < MaxRounds
    /\ \E ra \in {finish_round(twin[1].g)} :
       \E rb \in {finish_round(twin[2].g)} :
           /\ \E da \in orders_after_finish(twin[1], ra) :
              \E db \in orders_after_finish(twin[2], rb) :
                  twin' = <<[g |-> ra.g, deck |-> da],
                            [g |-> rb.g, deck |-> db]>>
           /\ ret' = ra.res
           /\ phase' = CASE ra.res = "ok_true" -> "GameOver"
                         [] ra.res = "ok_false" -> "Scored"
                         [] OTHER -> phase
    /\ op' = "finish_round"
    /\ UNCHANGED <<gameVars, in_order, board, api>>

\* The moves played on both instances: the legal ones of the first.
TwinMoves == IF Len(twin) = 2 THEN valid_moves(twin[1].g) ELSE {}

\* Two games built from one seed and driven by one sequence of calls, in
\* lifecycle order.
TwinNext ==
    \/ TwinNew
    \/ TwinStart
    \/ \E m \in TwinMoves : TwinTurn(m)
    \/ TwinFinish

SpecTwin == Init /\ [][TwinNext]_vars

(* ---------------------------------------------------------------- claims *)
Succeeded == ret \in {"ok_true", "ok_false"}

\* Tiles on one board: staged, placed on the grid, and movable tiles in the trash.
BoardTiles(p) ==
    SumUpTo(p.working_count, NumColors - 1)
    + Cardinality({rc \in Rows \X Rows : p.played_tiles[rc[1]][rc[2]]})
    + Cardinality({i \in 1 .. Len(p.trashed_tiles) : is_movable(p.trashed_tiles[i])})

RECURSIVE SumBoards(_)
SumBoards(i) == IF i < 0 THEN 0 ELSE BoardTiles(players[i]) + SumBoards(i - 1)

RECURSIVE SumFactories(_)
SumFactories(f) ==
    IF f < 1 THEN 0 ELSE MovableSize(factories[f]) + SumFactories(f - 1)

TotalTiles ==
    MovableSize(tile_bag) + MovableSize(box_lid) + SumFactories(NumFactories)
    + SumUpTo(center, NumColors - 1) + SumBoards(NumPlayers - 1)

\* C1: in every state reached by any sequence of start_round, take_turn and
\* finish_round calls, accepted or rejected, the movable tiles of the draw pile,
\* the discard pile, the offers, the pool and every board (staging, grid, trash)
\* number NumColors * TilesPerColor (100 in the source); the start token and the
\* empty sentinel are not counted.
C1_TileConservation == TotalTiles = NumColors * TilesPerColor

\* A later round in progress with tiles on a grid, in a staging row, in a trash
\* and in the pool at once.
C1_Witness ==
    /\ phase = "RoundInProgress"
    /\ \E i \in Players, r \in Rows, c \in Rows : players[i].played_tiles[r][c]
    /\ \E i \in Players, r \in Rows : players[i].working_count[r] > 0
    /\ \E i \in Players : \E k \in 1 .. Len(players[i].trashed_tiles) :
          is_movable(players[i].trashed_tiles[k])
    /\ SumUpTo(center, NumColors - 1) > 0

NonNegativeScores == \A i \in Players : score(players[i]) >= 0

\* The ledger entry a scoring finish_round appends for player i, and the total
\* up to and including it (bonus entries may follow it).
RoundEntry(i) == players'[i].scores[Len(players[i].scores) + 1]

FloorApplied(i) ==
    LET prev == score(players[i])
        raw == raw_round_score(players[i])
    IN  IF prev + raw < 0
        THEN RoundEntry(i) = -prev /\ prev + RoundEntry(i) = 0
        ELSE RoundEntry(i) = raw

\* C2: every player's running total score() is >= 0 in every state, and when
\* score_round computes a round delta with previousTotal + delta < 0 it records
\* exactly -previousTotal, so that the new total is exactly 0.
C2_ScoreFloor ==
    /\ []NonNegativeScores
    /\ [][(op' = "finish_round" /\ ret' \in {"ok_true", "ok_false"})
             => \A i \in Players : FloorApplied(i)]_vars

\* A ledger holding a negative entry: a positive total was floored to 0.
C2_Witness ==
    \E i \in Players : \E k \in 1 .. Len(players[i].scores) :
        /\ players[i].scores[k] < 0
        /\ SumSeq(SubSeq(players[i].scores, 1, k)) = 0

\* C3: whenever take_turn returns an error, the whole GameState (offers, pool,
\* every board, currentPlayerIndex, firstPlayerMarker, draw and discard piles,
\* roundNumber) is what it was before the call.
C3_TakeTurnAllOrNothing ==
    [][(op' = "take_turn" /\ ret' = "err") => UNCHANGED gameVars]_vars

\* A rejected take_turn in a round in progress, the current player holding a
\* staged row that is full (one of the rows add_tiles refuses).
C3_Witness ==
    /\ op = "take_turn"
    /\ ret = "err"
    /\ phase = "RoundInProgress"
    /\ curr_player_idx \in Players
    /\ \E r \in Rows : players[curr_player_idx].working_count[r] = r + 1
    /\ SumFactories(NumFactories) > 0

\* C4: for every Move value, also one naming an offer that does not exist,
\* take_turn (through num_tiles_taken) returns an error value and does not
\* abort the process.
C4_NeverAborts == ret # "panic"

\* Every offer is empty and the pool holds no entry, color or start token.
NothingLeft ==
    /\ \A f \in Factories : \A c \in Colors : factories[f][c] = 0
    /\ \A c \in Colors \cup {Start} : center[c] = 0

\* All offers are empty and the pool holds the unclaimed start token alone.
OnlyStartTokenLeft ==
    /\ \A f \in Factories : \A c \in Colors : factories[f][c] = 0
    /\ \A c \in Colors : center[c] = 0
    /\ center[Start] = 1

\* C5: a successful take_turn returns true exactly when, after the draft, every
\* offer is empty and the pool holds no entry at all; with all offers empty and
\* only the unclaimed start token in the pool the round is not over, and
\* finish_round is rejected there.
C5_RoundOverDetection ==
    /\ [][(op' = "take_turn" /\ ret' \in {"ok_true", "ok_false"})
             => (ret' = "ok_true" <=> NothingLeft')]_vars
    /\ [][(op' = "finish_round" /\ OnlyStartTokenLeft)
             => (ret' = "err" /\ UNCHANGED gameVars)]_vars

\* finish_round was just rejected in a started round whose offers are all empty
\* and whose pool holds only the start token.
C5_Witness ==
    /\ op = "finish_round"
    /\ ret = "err"
    /\ phase = "RoundInProgress"
    /\ OnlyStartTokenLeft

\* C6: whenever a round is in progress (start_round was called and the round is
\* not over), valid_moves() of the current player is not empty, whatever
\* start_round dealt and whatever was drafted.
C6_NoStuckTurn ==
    (phase = "RoundInProgress" /\ ~NothingLeft) => valid_moves(GS) # {}

FullRowExists(ps) ==
    \E i \in Players : \E r \in Rows : \A c \in Rows : ps[i].played_tiles[r][c]

BonusEntries(p) ==
    <<2 * Cardinality({r \in Rows : \A c \in Rows : p.played_tiles[r][c]}),
      7 * Cardinality({c \in Rows : \A r \in Rows : p.played_tiles[r][c]}),
      10 * Cardinality({k \in Colors :
               \A r \in Rows : p.played_tiles[r][(k + r) % NumColors]})>>

FinishRoundScored == op' = "finish_round" /\ ret' \in {"ok_true", "ok_false"}

\* C7: finish_round returns true iff, after every player's score_round, some
\* player has a fully occupied grid row; that call appends the round entry and
\* then the three bonus entries to every ledger, once; a call returning false
\* appends the round entry alone; is_finished() is false until the first call
\* that returns true and true from then on.
C7_GameEnd ==
    /\ [][FinishRoundScored =>
            /\ ret' = "ok_true" <=> FullRowExists(players')
            /\ \A i \in Players :
                  Len(players'[i].scores) = Len(players[i].scores)
                      + (IF ret' = "ok_true" THEN 4 ELSE 1)
            /\ ret' = "ok_true" =>
                  \A i \in Players :
                      SubSeq(players'[i].scores, Len(players[i].scores) + 2,
                             Len(players[i].scores) + 4)
                          = BonusEntries(players'[i])]_vars
    /\ [][(is_finished(GS') /\ ~is_finished(GS))
             => (op' = "finish_round" /\ ret' = "ok_true")]_vars
    /\ [][is_finished(GS) => is_finished(GS')]_vars

\* finish_round has just signalled game-over: a player holds a full row and
\* another does not, and every ledger ends with the bonuses.
C7_Witness ==
    /\ op = "finish_round"
    /\ ret = "ok_true"
    /\ \E i \in Players : num_full_rows(players[i]) > 0
    /\ \E i \in Players : num_full_rows(players[i]) = 0
    /\ \A i \in Players : Len(players[i].scores) >= 4

\* C8: finish_round called while an offer or the pool is not empty returns an
\* error and changes nothing: no staging row is flushed, no ledger entry
\* appended, no trash cleared, and the draw and discard piles are unchanged.
C8_FinishRoundRejected ==
    [][(op' = "finish_round" /\ ~NothingLeft)
          => (ret' = "err" /\ UNCHANGED gameVars)]_vars

\* finish_round was rejected while a player held a full staging row and a
\* non-empty trash, and tiles were still on offer.
C8_Witness ==
    /\ op = "finish_round"
    /\ ret = "err"
    /\ SumFactories(NumFactories) > 0
    /\ \E i \in Players :
          /\ \E r \in Rows : players[i].working_count[r] = r + 1
          /\ players[i].trashed_tiles # <<>>

\* C9: a successful take_turn that does not end the round sets currentPlayerIndex
\* to (old + 1) mod playerCount; one that ends the round leaves it unchanged; no
\* other call but start_round changes it; and it is always a real player index.
C9_TurnOrder ==
    /\ [](curr_player_idx \in Players)
    /\ [][(op' = "take_turn" /\ ret' = "ok_false")
             => curr_player_idx' = (curr_player_idx + 1) % NumPlayers]_vars
    /\ [][(op' = "take_turn" /\ ret' # "ok_false")
             => curr_player_idx' = curr_player_idx]_vars
    /\ [][op' = "finish_round" => curr_player_idx' = curr_player_idx]_vars

\* The turn has just passed from the last player back to player 0.
C9_Witness ==
    /\ op = "take_turn"
    /\ ret = "ok_false"
    /\ phase = "RoundInProgress"
    /\ curr_player_idx = 0

StartTokens(p) ==
    Cardinality({k \in 1 .. Len(p.trashed_tiles) : p.trashed_tiles[k] = Start})

\* A successful take_turn leaves every offer as it was iff it drafted the pool.
DraftedPool == op' = "take_turn" /\ ret' \in {"ok_true", "ok_false"}
               /\ factories' = factories

DraftedOffer == op' = "take_turn" /\ ret' \in {"ok_true", "ok_false"}
                /\ factories' # factories

TokenUntouched ==
    /\ start_player_idx' = start_player_idx
    /\ center'[Start] = center[Start]
    /\ \A i \in Players : StartTokens(players'[i]) = StartTokens(players[i])

\* C10: in each round the first successful draft from the pool, and only that
\* draft, claims the start token: firstPlayerMarker becomes the drafting player,
\* one start token is appended to that player's trash and the token leaves the
\* pool; a round cannot end before that, so at round-over firstPlayerMarker is a
\* real player index, and the next start_round makes that player the current
\* player, resets the marker to the sentinel and puts the token back.
C10_StartTokenHandOver ==
    /\ [](phase = "RoundInProgress" =>
             (center[Start] = 1 <=> start_player_idx = NumPlayers))
    /\ [](phase \in {"RoundOver", "Scored"} => start_player_idx \in Players)
    /\ [][(DraftedPool /\ start_player_idx = NumPlayers) =>
            /\ start_player_idx' = curr_player_idx
            /\ center'[Start] = 0
            /\ players'[curr_player_idx].trashed_tiles # <<>>
            /\ players'[curr_player_idx].trashed_tiles[
                   Len(players'[curr_player_idx].trashed_tiles)] = Start
            /\ StartTokens(players'[curr_player_idx])
                   = StartTokens(players[curr_player_idx]) + 1
            /\ \A i \in Players \ {curr_player_idx} :
                   StartTokens(players'[i]) = StartTokens(players[i])]_vars
    /\ [][(DraftedPool /\ start_player_idx # NumPlayers) => TokenUntouched]_vars
    /\ [][DraftedOffer => TokenUntouched]_vars
    /\ [][op' = "start_round" =>
            /\ curr_player_idx' = start_player_idx
            /\ start_player_idx' = NumPlayers
            /\ center'[Start] = 1]_vars

\* The token was claimed in a round after the first and sits in the trash of
\* the player marked to start the next round; the round goes on with every
\* offer empty, so that the next draft is one more draft from the pool.
C10_Witness ==
    /\ op = "take_turn"
    /\ ret = "ok_false"
    /\ phase = "RoundInProgress"
    /\ Len(players[0].scores) >= 1
    /\ start_player_idx \in Players
    /\ StartTokens(players[start_player_idx]) = 1
    /\ center[Start] = 0
    /\ \A f \in Factories : PileSize(factories[f]) = 0
    /\ SumUpTo(center, NumColors - 1) > 0

RECURSIVE SumStartTokens(_)
SumStartTokens(i) ==
    IF i < 0 THEN 0 ELSE StartTokens(players[i]) + SumStartTokens(i - 1)

\* Start tokens in the pool and in every trash.
TokensInPlay == center[Start] + SumStartTokens(NumPlayers - 1)

SingleToken ==
    /\ TokensInPlay <= 1
    /\ phase \in {"RoundInProgress", "RoundOver"} => TokensInPlay = 1
    /\ Cardinality({i \in Players : StartTokens(players[i]) > 0}) <= 1
    /\ \A f \in Factories : factories[f][Start] = 0
    /\ tile_bag[Start] = 0
    /\ box_lid[Start] = 0
    /\ \A i \in Players : \A r \in Rows : players[i].working_color[r] # Start

\* C11 as stated: the start token is a singleton in every reachable state,
\* whatever the order of the calls.
C11_AnyCallOrder == SingleToken

\* C11: while start_round, take_turn and finish_round are called in lifecycle
\* order, the start tokens in the pool and in all trashes number at most 1 in
\* every state and exactly 1 from start_round until the round's finish_round
\* (so at most one player per round holds the trash entry); no offer, staging
\* row, draw pile or discard pile ever holds one.
C11_StartTokenSingleton == in_order => SingleToken

\* A later round whose token has been claimed: the token of the round before
\* went through score_round with the trash it was in, and tiles handed back by
\* that round's scoring are on offer again.
C11_Witness ==
    /\ in_order
    /\ phase = "RoundInProgress"
    /\ Len(players[0].scores) >= 1
    /\ center[Start] = 0
    /\ SumStartTokens(NumPlayers - 1) = 1
    /\ SumFactories(NumFactories) + MovableSize(center) > 0

CellsKept ==
    \A i \in Players : \A r \in Rows : \A c \in Rows :
        players[i].played_tiles[r][c] => players'[i].played_tiles[r][c]

\* C12: under any sequence of start_round, take_turn and finish_round calls
\* (score_round and score_bonuses included), a grid cell that is occupied is
\* occupied in every later state, and is_finished() never goes from true back
\* to false.
C12_GridMonotone ==
    /\ [][CellsKept]_vars
    /\ [][is_finished(GS) => is_finished(GS')]_vars

\* A scoring finish_round on a board that already held a tile: the second
\* tile of a grid row has been placed next to the first.
C12_Witness ==
    /\ op = "finish_round"
    /\ Succeeded
    /\ \E i \in Players :
          /\ Len(players[i].scores) >= 2
          /\ \E r \in Rows : \E c, d \in Rows :
                c # d /\ players[i].played_tiles[r][c]
                      /\ players[i].played_tiles[r][d]

\* Row r of player i is locked by this step: a successful take_turn of that
\* player staged tiles of the new color in the empty row.
RowLocked(i, r) ==
    /\ players[i].working_color[r] = Blank
    /\ players[i].working_count[r] = 0
    /\ players'[i].working_color[r] \in Colors
    /\ players'[i].working_count[r] > 0
    /\ op' = "take_turn" /\ ret' \in {"ok_true", "ok_false"}
    /\ i = curr_player_idx

\* Row r of player i is flushed by this step: a scoring finish_round found it
\* at full capacity.
RowFlushed(i, r) ==
    /\ players[i].working_count[r] = r + 1
    /\ players'[i].working_color[r] = Blank
    /\ players'[i].working_count[r] = 0
    /\ op' = "finish_round" /\ ret' \in {"ok_true", "ok_false"}

PartialRow(i, r) ==
    players[i].working_count[r] > 0 /\ players[i].working_count[r] < r + 1

\* C13: a staging row's locked color changes only from Empty to a color by a
\* successful add_tiles into that row, or back to Empty when score_round
\* flushes that row at full capacity; a partially filled row keeps its color
\* and its count across finish_round (score_round) and start_round, in every
\* round.
C13_StagingLock ==
    /\ [][\A i \in Players : \A r \in Rows :
            players'[i].working_color[r] # players[i].working_color[r]
                => (RowLocked(i, r) \/ RowFlushed(i, r))]_vars
    /\ [][op' \in {"finish_round", "start_round"} =>
            \A i \in Players : \A r \in Rows :
                PartialRow(i, r) =>
                    /\ players'[i].working_color[r] = players[i].working_color[r]
                    /\ players'[i].working_count[r]
                           = players[i].working_count[r]]_vars

\* The next round has been started for a player who kept a partially filled
\* row, locked to a color, through a scoring that flushed another row.
C13_Witness ==
    /\ op = "start_round"
    /\ \E i \in Players :
          /\ Len(players[i].scores) >= 1
          /\ \E r \in Rows :
                /\ players[i].working_count[r] > 0
                /\ players[i].working_count[r] < r + 1
                /\ players[i].working_color[r] \in Colors
          /\ \E r \in Rows : \E c \in Rows : players[i].played_tiles[r][c]

\* What C14 says of add_tiles(p, a.row, a.color, a.num_tiles) leaving board q.
OverflowTrashed(p, a, q) ==
    IF a.row < NumColors THEN
        LET old == p.working_count[a.row]
            kept == Min(a.row + 1, old + a.num_tiles)
        IN  /\ q.working_count[a.row] = kept
            /\ q.trashed_tiles
                   = p.trashed_tiles \o Repeat(a.color, old + a.num_tiles - kept)
            /\ (q.working_count[a.row] - old)
                   + (Len(q.trashed_tiles) - Len(p.trashed_tiles)) = a.num_tiles
            /\ \A r \in Rows \ {a.row} : q.working_count[r] = p.working_count[r]
    ELSE /\ a.row = TrashRow
         /\ q.trashed_tiles = p.trashed_tiles \o Repeat(a.color, a.num_tiles)
         /\ q.working_count = p.working_count

\* C14: on every board PlayerState's operations lead to, a successful
\* add_tiles(row, color, count) with row below the trash row leaves the row
\* holding min(row+1, oldCount + count) tiles and appends the other
\* (oldCount + count) - min(row+1, oldCount + count) tiles of that color to
\* the trash, so that staged increase + trash increase = count; with the
\* trash row all count tiles are appended to the trash; and no staging row
\* ever holds more than row+1 tiles.
C14_OverflowTrashing ==
    /\ \A r \in Rows : board.working_count[r] <= r + 1
    /\ \A a \in AddArgs :
          \A res \in {add_tiles(board, a.row, a.color, a.num_tiles)} :
              res.ok => OverflowTrashed(board, a, res.pl)

\* add_tiles has just filled the last row to capacity and trashed the excess
\* of the same color, on a board that had been scored before.
C14_Witness ==
    /\ op = "add_tiles"
    /\ ret = "ok"
    /\ board.working_count[NumColors - 1] = NumColors
    /\ board.scores # <<>>
    /\ board.trashed_tiles # <<>>
    /\ \A k \in 1 .. Len(board.trashed_tiles) :
          board.trashed_tiles[k] = board.working_color[NumColors - 1]

\* The cases in which C15 says add_tiles(p, a.row, a.color, a.num_tiles) is
\* rejected.
MustReject(p, a) ==
    \/ a.row > TrashRow
    \/ a.color = Start /\ a.row < TrashRow
    \/ a.row < TrashRow /\ a.color \in Colors /\ is_played(p, a.row, a.color)
    \/ a.row < TrashRow /\ p.working_color[a.row] \notin {Blank, a.color}
    \/ a.row < TrashRow /\ p.working_count[a.row] >= a.row + 1

\* C15: on every board PlayerState's operations lead to, add_tiles returns an
\* error and leaves the board (grid, staging counts, staging colors, trash,
\* ledger) as it was when the row is past the trash row, when the color is
\* the start token and the row is a staging row, when the color's grid cell
\* of that row is occupied, when the row is locked to another color, and
\* when the row is at capacity.
C15_AddTilesRejects ==
    \A a \in AddArgs :
        MustReject(board, a) =>
            \A res \in {add_tiles(board, a.row, a.color, a.num_tiles)} :
                ~res.ok /\ res.pl = board

\* add_tiles was just rejected on a board with an occupied grid cell, a full
\* first row and a locked, partially filled last row.
C15_Witness ==
    /\ op = "add_tiles"
    /\ ret = "err"
    /\ \E r \in Rows : \E c \in Rows : board.played_tiles[r][c]
    /\ board.working_count[0] = 1
    /\ board.working_count[NumColors - 1] \in 1 .. (NumColors - 1)
    /\ board.working_color[NumColors - 1] \in Colors

\* What C16 says of a successful take_turn(m) in the current state leaving
\* game state h.
SourceFrame(m, h) ==
    /\ IF m.factory_idx = 0 THEN
           /\ h.center[m.color] = 0
           /\ \A c \in Colors \ {m.color} : h.center[c] = center[c]
           /\ h.center[Start] = IF start_player_idx = NumPlayers THEN 0
                                ELSE center[Start]
           /\ h.factories = factories
       ELSE
           /\ PileSize(h.factories[m.factory_idx]) = 0
           /\ \A c \in Colors \ {m.color} :
                 h.center[c] = center[c] + factories[m.factory_idx][c]
           /\ h.center[m.color] = center[m.color]
           /\ h.center[Start] = center[Start]
           /\ \A f \in Factories \ {m.factory_idx} :
                 h.factories[f] = factories[f]
    /\ \A i \in Players \ {curr_player_idx} : h.players[i] = players[i]

\* C16: in every state any sequence of calls leads to, a take_turn that
\* succeeds in drafting color c from an offer empties that offer, adds each of
\* its tiles of another color to the pool and leaves every other offer as it
\* is; one that succeeds in drafting c from the pool removes c's entry (and the
\* start token if it is claimed) and leaves the other pool counts and every
\* offer as they are; the boards of the other players are unchanged.
C16_SourceMutation ==
    \A m \in Moves :
        \A r \in {take_turn(GS, m)} :
            r.res \in {"ok_true", "ok_false"} => SourceFrame(m, r.g)

\* A draft from an offer has just spilled a tile into a pool that still holds
\* the start token, with another offer still full: drafts from an offer and
\* from the pool can both succeed next.
C16_Witness ==
    /\ op = "take_turn"
    /\ ret = "ok_false"
    /\ center[Start] = 1
    /\ \E c \in Colors : center[c] > 0
    /\ \E f \in Factories : PileSize(factories[f]) = FactorySize
    /\ \E m \in valid_moves(GS) : m.factory_idx = 0
    /\ \E m \in valid_moves(GS) : m.factory_idx # 0

\* C17: two GameState instances constructed with the same random-source
\* sequence and driven by the same sequence of start_round / take_turn /
\* finish_round calls hold the same tiles in the same places, the same boards
\* and the same indices after every call, also in the rounds that follow a
\* refill of the draw pile in finish_round.
C17_Determinism == Len(twin) = 2 => twin[1].g = twin[2].g

\* C18: every call to start_round increases roundNumber by exactly 1, for
\* every size of the draw pile at the time of the call, also one that runs
\* out while the offers are being filled.
C18_RoundNumber ==
    [][op' = "start_round" => round_number' = round_number + 1]_vars

AllOffersEmpty == \A f \in Factories : PileSize(factories[f]) = 0

RECURSIVE DealtOf(_, _)
DealtOf(c, f) == IF f < 1 THEN 0 ELSE factories'[f][c] + DealtOf(c, f - 1)

\* C19: start_round called when all offers are empty moves tiles from the
\* draw pile into the offers and nowhere else: offers are filled in order,
\* FactorySize (4 in the source) tiles each, until the draw pile is empty; the
\* discard pile, the boards and the movable tiles of the pool are left alone;
\* in every state each of the 2 * playerCount + 1 offers holds between 0 and
\* FactorySize tiles.
C19_OfferFilling ==
    /\ [](/\ DOMAIN factories = 1 .. (2 * NumPlayers + 1)
          /\ \A f \in Factories : PileSize(factories[f]) \in 0 .. FactorySize)
    /\ [][(op' = "start_round" /\ AllOffersEmpty) =>
            /\ \A c \in Tiles : tile_bag[c] - tile_bag'[c] = DealtOf(c, NumFactories)
            /\ \A c \in Tiles : tile_bag'[c] >= 0
            /\ \A f \in Factories \ {1} :
                  PileSize(factories'[f]) > 0
                      => PileSize(factories'[f - 1]) = FactorySize
            /\ (\E f \in Factories : PileSize(factories'[f]) < FactorySize)
                  => PileSize(tile_bag') = 0
            /\ box_lid' = box_lid
            /\ players' = players
            /\ \A c \in Colors : center'[c] = center[c]]_vars

\* start_round has just run out of tiles in the middle of an offer: the
\* offers before it are full, it holds fewer tiles, the offers after it none.
C19_Witness ==
    /\ op = "start_round"
    /\ PileSize(tile_bag) = 0
    /\ \E f \in Factories \ {1} :
          /\ PileSize(factories[f]) \in 1 .. (FactorySize - 1)
          /\ PileSize(factories[f - 1]) = FactorySize
          /\ \A h \in Factories : h > f => PileSize(factories[h]) = 0

\* The tiles score_round hands back from board p: all but one tile of every
\* full staging row, and the trash without the start token.
Returned(p) ==
    [c \in Tiles |->
        IF c = Start THEN 0
        ELSE SumSeq([r \in 1 .. NumColors |->
                        IF p.working_count[r - 1] = r /\ p.working_color[r - 1] = c
                        THEN r - 1 ELSE 0])
             + Cardinality({k \in 1 .. Len(p.trashed_tiles) :
                               p.trashed_tiles[k] = c})]

RECURSIVE ReturnedByAll(_)
ReturnedByAll(i) ==
    IF i < 0 THEN EmptyPile
    ELSE PilePlus(Returned(players[i]), ReturnedByAll(i - 1))

\* C20: when finish_round returns false and the draw pile held fewer than
\* FactorySize * (number of offers) tiles (4 * offers in the source), every tile
\* of the discard pile, the tiles returned by this scoring included, has been
\* moved into the draw pile and the discard pile is empty; when it held at
\* least that many, the draw pile is unchanged and the discard pile has grown
\* by exactly the tiles the players' score_round returned; when finish_round
\* returns true nothing is recycled.
C20_Recycling ==
    /\ [][(op' = "finish_round" /\ ret' = "ok_false"
              /\ PileSize(tile_bag) < FactorySize * NumFactories) =>
            /\ box_lid' = EmptyPile
            /\ tile_bag' = PilePlus(tile_bag,
                              PilePlus(box_lid, ReturnedByAll(NumPlayers - 1)))]_vars
    /\ [][(op' = "finish_round" /\ ret' = "ok_false"
              /\ PileSize(tile_bag) >= FactorySize * NumFactories) =>
            /\ tile_bag' = tile_bag
            /\ box_lid' = PilePlus(box_lid, ReturnedByAll(NumPlayers - 1))]_vars
    /\ [][(op' = "finish_round" /\ ret' = "ok_true") =>
            /\ tile_bag' = tile_bag
            /\ box_lid' = PilePlus(box_lid, ReturnedByAll(NumPlayers - 1))]_vars

\* finish_round has just returned false on a draw pile of exactly one full
\* deal: nothing was recycled and the discard pile holds returned tiles.
C20_Witness ==
    /\ op = "finish_round"
    /\ ret = "ok_false"
    /\ PileSize(tile_bag) = FactorySize * NumFactories
    /\ PileSize(box_lid) > 1

(* ------------------------------------------------------------------ C21 *)
\* The occupied cells that follow (row, col) in direction (dr, dc) without a
\* gap, counted cell by cell up to the first free cell or the edge.
RECURSIVE RunFrom(_, _, _, _, _)
RunFrom(grid, row, col, dr, dc) ==
    IF (row + dr) \in Rows /\ (col + dc) \in Rows /\ grid[row + dr][col + dc]
    THEN 1 + RunFrom(grid, row + dr, col + dc, dr, dc)
    ELSE 0

\* The length of the run through (row, col) along its row and along its column.
HorizRun(grid, row, col) ==
    1 + RunFrom(grid, row, col, 0, 1) + RunFrom(grid, row, col, 0, -1)

VertRun(grid, row, col) ==
    1 + RunFrom(grid, row, col, 1, 0) + RunFrom(grid, row, col, -1, 0)

FullColorsOf(p) ==
    {k \in Colors :
        \A row \in Rows : \A col \in Rows :
            (col + NumColors - row) % NumColors = k => p.played_tiles[row][col]}

FullRowsOf(p) == {row \in Rows : \A col \in Rows : p.played_tiles[row][col]}

FullColumnsOf(p) == {col \in Rows : \A row \in Rows : p.played_tiles[row][col]}

\* C22: on every board PlayerState's operations lead to, score_bonuses appends
\* exactly three entries to the ledger, in this order: 2 x the number of full
\* grid rows, 7 x the number of full grid columns, 10 x the number of colors
\* whose cells (color = (col + NumColors - row) mod NumColors) are all
\* occupied; grid, staging rows, trash and the earlier ledger entries are as
\* before.
C22_Bonuses ==
    \A q \in {score_bonuses(board)} :
        /\ Len(q.scores) = Len(board.scores) + 3
        /\ q.scores = board.scores \o
               <<2 * Cardinality(FullRowsOf(board)),
                 7 * Cardinality(FullColumnsOf(board)),
                 10 * Cardinality(FullColorsOf(board))>>
        /\ q.played_tiles = board.played_tiles
        /\ q.working_count = board.working_count
        /\ q.working_color = board.working_color
        /\ q.trashed_tiles = board.trashed_tiles

\* score_bonuses has just been called on a scored board with one full column,
\* no full row and no full color: it appended 0, 7, 0 after the round's entry.
C22_Witness ==
    /\ op = "score_bonuses"
    /\ Len(board.scores) = 4
    /\ board.scores[1] > 0
    /\ SubSeq(board.scores, 2, 4) = <<0, 7, 0>>
    /\ Cardinality(FullColumnsOf(board)) = 1
    /\ FullRowsOf(board) = {}

(* ------------------------------------------------------------------ C23 *)
\* The source the Move names exists: the pool or one of the offers.
SourceExists(m) == m.factory_idx \in 0 .. NumFactories

\* take_turn(m) returns Ok in the current state.
Accepted(m) == take_turn(GS, m).res \in {"ok_true", "ok_false"}

\* The rows C23 lists for color c on board p: the trash row, and every staging
\* row that is unlocked or locked to c, whose grid cell for c is free and that
\* is not full.
OpenRows(p, c) ==
    {TrashRow} \cup
    {row \in 0 .. (TrashRow - 1) :
        /\ p.working_color[row] \in {Blank, c}
        /\ ~p.played_tiles[row][(c + row) % NumColors]
        /\ p.working_count[row] < row + 1}

\* C23: in every state any call order leads to in which there is a current
\* player, valid_moves() is exactly the set of Moves take_turn accepts: every
\* Move it returns makes take_turn return Ok, and every Move naming an
\* existing source for which take_turn returns Ok is in it; per color the
\* rows offered are the trash row plus the staging rows that are unlocked or
\* locked to the color, have the color's grid cell free and are not full.
\* Where there is no current player (start_round called twice in a row, where
\* valid_moves() does not return), take_turn accepts no Move.
C23_ValidMovesExact ==
    IF curr_player_idx \in Players THEN
        /\ \A m \in valid_moves(GS) : m \in Moves /\ Accepted(m)
        /\ \A m \in Moves :
              (SourceExists(m) /\ Accepted(m)) => m \in valid_moves(GS)
        /\ \A c \in Colors :
              player_valid_moves(players[curr_player_idx], c)
                  = OpenRows(players[curr_player_idx], c)
    ELSE \A m \in Moves : ~Accepted(m)

\* A state in the second round in which the current player has a tile on the
\* grid, valid_moves() offers a staging row, and a color that is on offer may
\* not go to every row.
C23_Witness ==
    /\ curr_player_idx \in Players
    /\ phase = "RoundInProgress"
    /\ \E r \in Rows : \E c \in Rows : players[curr_player_idx].played_tiles[r][c]
    /\ \E m \in valid_moves(GS) : m.working_row < TrashRow
    /\ \E f \in 0 .. NumFactories : \E c \in Colors : \E r \in Rows :
          /\ (IF f = 0 THEN center[c] ELSE factories[f][c]) > 0
          /\ Move(f, c, r) \notin valid_moves(GS)
          /\ is_played(players[curr_player_idx], r, c)

(* ------------------------------------------------------------------ C24 *)
\* Row r of board p holds r+1 tiles.
RowIsFull(p, r) == p.working_count[r] = r + 1

\* The grid cell a full row r of board p places its tile in.
FlushColumn(p, r) == (p.working_color[r] + r) % NumColors

\* The grid of board p once the full rows above row r have been flushed.
GridAfterRows(p, r) ==
    [row \in Rows |-> [col \in Rows |->
        \/ p.played_tiles[row][col]
        \/ row < r /\ RowIsFull(p, row) /\ col = FlushColumn(p, row)]]

\* The adjacency score of C21 for cell (row, col) of a grid.
Adjacency(grid, row, col) ==
    HorizRun(grid, row, col) + VertRun(grid, row, col)
        - (IF HorizRun(grid, row, col) = 1 \/ VertRun(grid, row, col) = 1
           THEN 1 ELSE 0)

\* What the full rows of board p add to the round's delta: each placed tile
\* scored on the grid as it is once the rows above and its own row are flushed.
FlushGain(p) ==
    SumSeq([k \in 1 .. NumColors |->
               IF RowIsFull(p, k - 1)
               THEN Adjacency(GridAfterRows(p, k), k - 1, FlushColumn(p, k - 1))
               ELSE 0])

\* The sum of the first min(k, 7) entries of -1, -1, -2, -2, -2, -3, -3.
PenaltyOf(k) ==
    IF k = 0 THEN 0 ELSE <<-1, -2, -4, -6, -8, -11, -14>>[Min(k, 7)]

\* The tiles of color c that the full rows of board p hand back.
FlushReturned(p, c) ==
    SumSeq([k \in 1 .. NumColors |->
               IF RowIsFull(p, k - 1) /\ p.working_color[k - 1] = c
               THEN k - 1 ELSE 0])

\* C24: on every board PlayerState's operations lead to, score_round never
\* returns the "already played" error, and for each staging row r holding r+1
\* tiles of a color it occupies grid cell (r, (color + r) mod NumColors), which
\* was free, adds to the round's delta the adjacency score of that cell on the
\* grid after placement (rows from top to bottom, so that earlier flushes of
\* the same call count), hands back r tiles of the color and resets the row to
\* empty and unlocked; rows holding fewer tiles keep count and color, and no
\* other grid cell changes.
C24_Flush ==
    \A res \in {score_round(board)} :
        /\ res.ok
        /\ \A r \in Rows :
              IF RowIsFull(board, r)
              THEN /\ board.working_color[r] \in Colors
                   /\ ~board.played_tiles[r][FlushColumn(board, r)]
                   /\ res.pl.played_tiles[r][FlushColumn(board, r)]
                   /\ res.pl.working_count[r] = 0
                   /\ res.pl.working_color[r] = Blank
              ELSE /\ res.pl.working_count[r] = board.working_count[r]
                   /\ res.pl.working_color[r] = board.working_color[r]
                   /\ res.pl.played_tiles[r] = board.played_tiles[r]
        /\ res.pl.played_tiles = GridAfterRows(board, NumColors)
        /\ \A c \in Colors :
              res.returned[c] = FlushReturned(board, c)
                  + Cardinality({k \in 1 .. Len(board.trashed_tiles) :
                                    board.trashed_tiles[k] = c})
        /\ \A d \in {FlushGain(board) + PenaltyOf(Len(board.trashed_tiles))} :
              res.pl.scores = Append(board.scores,
                  IF score(board) + d < 0 THEN -score(board) ELSE d)

\* score_round has just flushed both a row whose tile scored alone and, below
\* it, a row whose tile scored with the first one, next to a tile of an
\* earlier round; a partially filled row would have been left as it was.
C24_Witness ==
    /\ op = "score_round"
    /\ ret = "ok"
    /\ Len(board.scores) = 2
    /\ board.scores[1] = 1
    /\ board.scores[2] >= 3
    /\ Cardinality({rc \in Rows \X Rows : board.played_tiles[rc[1]][rc[2]]}) = 3
    /\ \A r \in Rows : board.working_count[r] = 0 /\ board.working_color[r] = Blank

(* ------------------------------------------------------------------ C25 *)
\* The sum of the first n entries of a sequence of numbers.
RECURSIVE SumFirst(_, _)
SumFirst(s, n) == IF n = 0 THEN 0 ELSE s[n] + SumFirst(s, n - 1)

\* C25: on every board with a trash of up to LongTrash entries, score_round
\* with k trash entries (the start token counted) adds to the round's delta
\* the sum of the first min(k, 7) entries of -1, -1, -2, -2, -2, -3, -3, so
\* never less than -14 and nothing for the positions past the seventh; it
\* hands back every trashed tile but the start token, and leaves the trash
\* empty.
C25_TrashPenalty ==
    \A res \in {score_round(board)} :
    \A k \in {Len(board.trashed_tiles)} :
    \A pen \in {SumFirst(<<-1, -1, -2, -2, -2, -3, -3>>, Min(k, 7))} :
        /\ res.ok
        /\ raw_round_score(board) = FlushGain(board) + pen
        /\ pen >= -14
        /\ res.pl.scores = Append(board.scores,
               IF score(board) + FlushGain(board) + pen < 0
               THEN -score(board) ELSE FlushGain(board) + pen)
        /\ res.returned[Start] = 0
        /\ \A c \in Colors :
              res.returned[c] = FlushReturned(board, c)
                  + Cardinality({i \in 1 .. k : board.trashed_tiles[i] = c})
        /\ res.pl.trashed_tiles = <<>>

\* A board that scored one point in the round before and whose trash holds
\* more entries than the table, the start token among them: score_round
\* charges the full -14, of which the floor lets one point through.
C25_Witness ==
    /\ op = "add_tiles"
    /\ score(board) = 1
    /\ Len(board.trashed_tiles) > 7
    /\ \E i \in 1 .. Len(board.trashed_tiles) : board.trashed_tiles[i] = Start
    /\ \E i \in 1 .. Len(board.trashed_tiles) : board.trashed_tiles[i] \in Colors
    /\ raw_round_score(board) = -14
    /\ score_round(board).pl.scores = <<1, -1>>
    /\ PileSize(score_round(board).returned) < Len(board.trashed_tiles)

(* ------------------------------------------------------------------ C26 *)
\* The movable tiles held in the offers and the pool.
OnOffer == SumFactories(NumFactories) + MovableSize(center)

\* C26: with a driver that plays a legal move each turn, every successful
\* take_turn strictly decreases the number of movable tiles in the offers and
\* the pool, start_round leaves at most FactorySize * (number of offers) of
\* them (4 * (2 * playerCount + 1) in the source), and so every round in
\* progress gets to the take_turn that signals round-over.
C26_RoundTerminates ==
    /\ [][(op' = "take_turn" /\ ret' \in {"ok_true", "ok_false"})
              => OnOffer' < OnOffer]_vars
    /\ [](op = "start_round" => OnOffer <= FactorySize * NumFactories)
    /\ [](phase = "RoundInProgress" => <>(phase = "RoundOver"))

(* ------------------------------------------------------------------ C27 *)
\* The total of board p after score_round and score_bonuses, computed from
\* the claims' descriptions of flush, penalty, floor and bonuses.
TotalAfterScoring(p) ==
    LET d == FlushGain(p) + PenaltyOf(Len(p.trashed_tiles))
        entry == IF score(p) + d < 0 THEN -score(p) ELSE d
        flushed == [p EXCEPT !.played_tiles = GridAfterRows(p, NumColors)]
    IN  score(p) + entry + SumSeq(BonusEntries(flushed))

\* The total the current player would have if take_turn applied Move m and
\* score_round, score_bonuses were then run on their board.
ScoreIfPlayed(m) ==
    TotalAfterScoring(take_turn(GS, m).g.players[curr_player_idx])

\* C27: in every state of a game played with legal moves in which
\* valid_moves() is not empty, GreedyAgent's choose_action returns a member of
\* valid_moves() whose key (simulatedScore, heuristicBias) is lexicographically
\* maximal among all valid moves; for every valid move the key is evaluated
\* without a failure, and its simulatedScore is the total the current player
\* would have if take_turn applied the move (the start token's trash entry
\* included when the move claims it) and score_round, score_bonuses were then
\* run on their board.
C27_Greedy ==
    (curr_player_idx \in Players /\ valid_moves(GS) # {}) =>
        /\ \A o \in center_key_orders(GS) :
              {valid_moves_in_order(GS, o)[i] :
                  i \in 1 .. Len(valid_moves_in_order(GS, o))} = valid_moves(GS)
        /\ \A m \in valid_moves(GS) :
              \A key \in {score_move(GS, m)} :
                  key.ok /\ key.score = ScoreIfPlayed(m)
        /\ greedy_choose_action(GS) # {}
        /\ \A m \in greedy_choose_action(GS) :
              /\ m \in valid_moves(GS)
              /\ \A other \in valid_moves(GS) :
                    ~KeyLess(score_move(GS, m), score_move(GS, other))

\* A state in which the start token is still in the pool, the pool and an
\* offer both hold tiles, the current player has scored before, and the
\* valid moves differ in simulated score: the greedy choice is a draft from
\* the pool that claims the token.
C27_Witness ==
    /\ phase = "RoundInProgress"
    /\ curr_player_idx \in Players
    /\ is_start_token_available(GS)
    /\ score(players[curr_player_idx]) > 0
    /\ \E m \in valid_moves(GS) : \E other \in valid_moves(GS) :
          /\ is_from_center(m)
          /\ ~is_from_center(other)
          /\ score_move(GS, other).score < score_move(GS, m).score
    /\ \E m \in greedy_choose_action(GS) : is_from_center(m)

(* ------------------------------------------------------------------ C28 *)
\* Move m is among the min(num_branches, n) valid moves ranked highest by the
\* Greedy key: fewer than num_branches valid moves have a greater key.
TopRanked(m) ==
    Cardinality({x \in valid_moves(GS) :
                    KeyLess(score_move(GS, m), score_move(GS, x))}) < num_branches

\* The end-of-round scores a simulation of Move m can give the current player.
SimulatedScores(m, recurse) ==
    {x.score : x \in {y \in simulate(curr_player_idx, GS, m, recurse) : y.ok}}

\* What C28 says of the Moves choose_action returns in the current state.
PlannedWell(recurse) ==
    \A ch \in {planning_choose_action(GS, recurse)} :
        /\ ~ch.panics
        /\ ch.moves # {}
        /\ \A m \in ch.moves :
              /\ m \in valid_moves(GS)
              /\ TopRanked(m)
              /\ \E s \in SimulatedScores(m, recurse) :
                    \A other \in valid_moves(GS) :
                        TopRanked(other) =>
                            \E t \in SimulatedScores(other, recurse) : t <= s

\* C28: in every state of a game played with legal moves in which
\* valid_moves() is not empty, RoundPlanningAgent's choose_action (with either
\* setting of recurse) returns a member of valid_moves() that is among the
\* min(K, n) moves ranked highest by the Greedy key (K = 5) and whose
\* simulated end-of-round score is maximal among those candidates, every
\* simulation running on its clone until take_turn signals round-over
\* without a failure.
C28_RoundPlanning ==
    (curr_player_idx \in Players /\ valid_moves(GS) # {}) =>
        \A recurse \in BOOLEAN : PlannedWell(recurse)

(* ------------------------------------------------------------------ C29 *)
\* Every ledger is as it was before the step.
LedgersKept == \A i \in Players : players'[i].scores = players[i].scores

\* A later process_action is turned down and changes nothing.
TurnedDown ==
    (api.game_over /\ op' = "process_action") =>
        (ret' = "err" /\ UNCHANGED gameVars)

\* C29 as stated, for any caller of the wrapper: once game_over is true it
\* stays true, start_round and take_turn are never invoked again, every later
\* process_action returns an error and leaves game state and ledgers as they
\* were, and a game built by restore has game_over true.
C29_AnyCaller ==
    /\ [][api.game_over => api'.game_over]_vars
    /\ [][api.game_over =>
            api'.invoked \cap {"start_round", "take_turn"} = {}]_vars
    /\ [][TurnedDown]_vars
    /\ [](op = "restore" => api.game_over)

\* C29, with start set apart: once finish_round has signalled game-over,
\* game_over stays true in every later state; process_action, process_agents
\* and restore invoke none of start_round, take_turn and finish_round again
\* (no call does while start has only been called first thing after init);
\* every later process_action returns an error and leaves the game state and
\* all ledgers unchanged; no later step changes a ledger, and the only step
\* that adds more than a round's entry to the ledgers is the one in which
\* game_over becomes true, which appends the round's entry and the three
\* bonus entries to each; a game built by restore has game_over true from
\* its first state.
C29_NoPlayAfterEnd ==
    /\ [][api.game_over => api'.game_over]_vars
    /\ [][(api.game_over /\ op' # "start") => api'.invoked = {}]_vars
    /\ [][(api.game_over /\ in_order') => api'.invoked = {}]_vars
    /\ [][TurnedDown]_vars
    /\ [][api.game_over => LedgersKept]_vars
    /\ [][\A i \in Players :
            /\ Len(players'[i].scores) - Len(players[i].scores) \in {0, 1, 4}
            /\ (Len(players'[i].scores) = Len(players[i].scores) + 4)
                  <=> (~api.game_over /\ api'.game_over)
            /\ (~api.game_over /\ api'.game_over) =>
                  SubSeq(players'[i].scores, Len(players[i].scores) + 2,
                         Len(players[i].scores) + 4)
                      = BonusEntries(players'[i])]_vars
    /\ [](op = "restore" => (api.game_over /\ api.restored))

\* process_action has just been turned down on a restored game that ended
\* with a bonus on some ledger, start having been called once, at the start.
C29_Witness ==
    /\ op = "process_action"
    /\ ret = "err"
    /\ api.game_over
    /\ api.restored
    /\ api.invoked = {}
    /\ in_order
    /\ phase = "GameOver"
    /\ \E i \in Players :
          /\ Len(players[i].scores) >= 4
          /\ SumSeq(BonusEntries(players[i])) > 0

====
